---- MODULE Spec2Model ----
(***************************************************************************)
(* A model of the QueryBuilder of microbase-orm (the class whose source is *)
(* src/CHANGELOG.md, lines 50-1702) and of the part of the drivers it      *)
(* uses.                                                                   *)
(*                                                                         *)
(* SQL text is a sequence of tokens (strings); "?" is the positional       *)
(* placeholder.  Joining with ' ' is concatenation of token sequences,     *)
(* joining with ', ' puts a "," token between the parts.                   *)
(*                                                                         *)
(* A JavaScript value that can be bound is a record [isArray, items]:      *)
(* a scalar has one item, null/undefined is the scalar "null", an array    *)
(* lists its (scalar) items.                                               *)
(*                                                                         *)
(* A compiled fragment is a record [text, binds, style].  text is what the *)
(* code stores.  binds and style are history fields that the code does not *)
(* have: binds lists, placeholder by placeholder, the value the caller     *)
(* handed over for that placeholder, and style is "and" when the fragment  *)
(* was pushed by the AND path of the code and "or" when it was pushed by   *)
(* the OR path.  Cache keys and SQL text are built from text alone.        *)
(***************************************************************************)
EXTENDS Integers, Sequences, FiniteSets, TLC

VARIABLES
    driverType,   \* QueryBuilder.driverType (constructor argument)
    qb,           \* the QueryBuilder instance: one record field per object field
    sent,         \* the statement the last call handed to driver.execute, if it did
    lastCall,     \* the last public method called on qb and how it ended
    compiled,     \* what the getCompiledSelect() calls since the last other call returned
    txStack,      \* the transaction(callback) calls in progress, outermost first;
                  \* the outermost one stays, closed, until the next top-level call
    txLog,        \* the transaction statements the driver has received during the
                  \* current (or last) top-level call
    exc,          \* the error now propagating inside a callback ("none" if none)
    chunk,        \* the chunk(size, callback) call in progress, or the last one
    twin,         \* the builder the last clone() returned, and what it shares with qb
    db,           \* the Database (config.autoConnect false) the builders come from
    driverTx,     \* the transaction of the driver's connection: "none", "open", or
                  \* "unknown" after a commit or rollback the driver rejected
    drv           \* the driver object: its execute calls in flight or settled, its
                  \* metrics and its placeholder cache

vars == <<driverType, qb, sent, lastCall, compiled, txStack, txLog, exc, chunk, twin, db,
         driverTx, drv>>

-----------------------------------------------------------------------------
(* Bounds of the model *)

MaxFrags == 2       \* fragments accumulated in one chain (where + having + join + union + cte)
MaxDepth == 2       \* nesting depth of transaction(callback)
MaxCache == 1       \* config.maxQueryCache of the modelled instance
MaxParams == 4      \* bind values accumulated in one chain
MaxCompiles == 2    \* consecutive compilations of one query that are told apart
MaxRows == 2        \* rows of one insertBatch
MaxChunk == 2       \* the size argument of chunk()
MaxTable == 5       \* rows the chunked query matches
MaxCeil == 1        \* every config.max* ceiling of the instance with low ceilings
MaxLimit == 2       \* the count and offset arguments of limit(count, offset)
MaxBuilders == 3    \* builders one Database hands out

-----------------------------------------------------------------------------
(* JavaScript values *)

Scalar(a) == [isArray |-> FALSE, items |-> <<a>>]
Arr(s) == [isArray |-> TRUE, items |-> s]
NullV == Scalar("null")
IsNullish(v) == ~v.isArray /\ v.items = <<"null">>
Spread(v) == [i \in 1..Len(v.items) |-> Scalar(v.items[i])]

V1 == Scalar("1")
V2 == Scalar("2")
A12 == Arr(<<"1", "2">>)

\* an object literal is the sequence of its entries, in key order
Entry(k, v) == [k |-> k, v |-> v]

RECURSIVE Flatten(_)
Flatten(ss) == IF ss = <<>> THEN <<>> ELSE Head(ss) \o Flatten(Tail(ss))

RECURSIVE JoinWith(_, _)
JoinWith(ss, sep) ==
    IF ss = <<>> THEN <<>>
    ELSE IF Len(ss) = 1 THEN Head(ss)
    ELSE Head(ss) \o sep \o JoinWith(Tail(ss), sep)

Texts(frags) == [i \in 1..Len(frags) |-> frags[i].text]
Binds(frags) == Flatten([i \in 1..Len(frags) |-> frags[i].binds])
Strs(ss) == [i \in 1..Len(ss) |-> <<ss[i]>>]

CountQ(text) == Cardinality({i \in 1..Len(text) : text[i] = "?"})

Frag(text, binds, style) == [text |-> text, binds |-> binds, style |-> style]
NoFrag == Frag(<<>>, <<>>, "none")

-----------------------------------------------------------------------------
(* Driver: identifier escaping *)

\* The MySQL quote character is the backtick, which a TLA+ string cannot hold:
\* it is written ' here.  The PostgreSQL quote character is ".
QuoteChar == IF driverType \in {"mysql", "mariadb"} THEN "'" ELSE "\""

RECURSIVE EscapeIdentifier(_)
EscapeIdentifier(parts) ==
    IF Len(parts) = 1 THEN QuoteChar \o Head(parts) \o QuoteChar
    ELSE QuoteChar \o Head(parts) \o QuoteChar \o "." \o EscapeIdentifier(Tail(parts))

Esc(name) == EscapeIdentifier(<<name>>)

IsPostgres == driverType \in {"postgres", "postgresql"}

-----------------------------------------------------------------------------
(* QueryBuilder: construction and reset *)

MaxWhereConditions == 50
MaxJoins == 20
MaxSelectFields == 100
MaxGroupByFields == 20
MaxOrderByFields == 10

\* this.validation of an instance constructed without config.max* and config.validation
DefaultValidation ==
    [enabled |-> TRUE, maxWhereConditions |-> MaxWhereConditions, maxJoins |-> MaxJoins,
     maxSelectFields |-> MaxSelectFields, maxGroupByFields |-> MaxGroupByFields,
     maxOrderByFields |-> MaxOrderByFields]

\* this.validation of an instance constructed with every config.max* = MaxCeil
LowValidation ==
    [enabled |-> TRUE, maxWhereConditions |-> MaxCeil, maxJoins |-> MaxCeil,
     maxSelectFields |-> MaxCeil, maxGroupByFields |-> MaxCeil,
     maxOrderByFields |-> MaxCeil]

NoQuery == [set |-> FALSE, sql |-> <<>>, params |-> <<>>]

\* a reset() that forgets the open transaction as well: C28 does not hold of it
ResetForgetting(b) ==
    [b EXCEPT !.selectFields = <<"*">>, !.fromTable = NoFrag, !.joinClauses = <<>>,
              !.whereClauses = <<>>, !.groupByFields = <<>>, !.havingClauses = <<>>,
              !.orderByFields = <<>>, !.limitValue = <<>>, !.offsetValue = <<>>,
              !.distinctFlag = FALSE, !.params = <<>>, !.updateData = <<>>,
              !.lastQuery = NoQuery, !.currentOperation = "none", !.subqueries = <<>>,
              !.isSubquery = FALSE, !.cteQueries = <<>>,
              !.inTransaction = FALSE, !.transactionDepth = 0]

Reset(b) ==
    [b EXCEPT !.selectFields = <<"*">>,
              !.fromTable = NoFrag,
              !.joinClauses = <<>>,
              !.whereClauses = <<>>,
              !.groupByFields = <<>>,
              !.havingClauses = <<>>,
              !.orderByFields = <<>>,
              !.limitValue = <<>>,
              !.offsetValue = <<>>,
              !.distinctFlag = FALSE,
              !.params = <<>>,
              !.updateData = <<>>,
              !.lastQuery = NoQuery,
              !.currentOperation = "none",
              !.subqueries = <<>>,
              !.isSubquery = FALSE,
              !.cteQueries = <<>>]

\* new QueryBuilder(connection, driverType, config): limitValue/offsetValue are
\* <<>> for null and <<n>> for the number n; updateData is <<>> for null.
NewBuilder ==
    [selectFields |-> <<"*">>, fromTable |-> NoFrag, joinClauses |-> <<>>,
     whereClauses |-> <<>>, groupByFields |-> <<>>, havingClauses |-> <<>>,
     orderByFields |-> <<>>, limitValue |-> <<>>, offsetValue |-> <<>>,
     distinctFlag |-> FALSE, params |-> <<>>, updateData |-> <<>>,
     lastQuery |-> NoQuery, currentOperation |-> "none", subqueries |-> <<>>,
     isSubquery |-> FALSE, cteQueries |-> <<>>,
     queryCache |-> {}, inTransaction |-> FALSE, transactionDepth |-> 0,
     validation |-> DefaultValidation]

-----------------------------------------------------------------------------
(* QueryBuilder: select, from, limit *)

\* select(fields) with a string: '*' or one expression
Select(b, fields) ==
    [b EXCEPT !.selectFields = IF fields = "*" THEN <<"*">> ELSE <<fields>>,
              !.currentOperation = "SELECT"]

DefaultSchema == "public"

\* from(table): the PostgreSQL auto-schema applies for driverType 'postgres' only
From(b, table) ==
    LET tableName == IF driverType = "postgres" THEN <<DefaultSchema, table>> ELSE <<table>>
    IN [b EXCEPT !.fromTable = Frag(<<EscapeIdentifier(tableName)>>, <<>>, "none")]

\* limit(count) with offset = null; count is a non-negative integer
Limit(b, count) == [b EXCEPT !.limitValue = <<count>>]

\* limit(count, offset) with non-negative integers
LimitOffset(b, count, offset) ==
    [b EXCEPT !.limitValue = <<count>>, !.offsetValue = <<offset>>]

-----------------------------------------------------------------------------
(* Driver: pagination syntax *)

\* a MySQL getLimitSyntax with limit and offset the other way round: C21 does not hold
\* of it
GetLimitSyntaxLimitFirst(limit, offset) ==
    IF IsPostgres THEN <<"LIMIT", ToString(limit), "OFFSET", ToString(offset)>>
    ELSE IF offset > 0 THEN <<"LIMIT", ToString(limit), ",", ToString(offset)>>
    ELSE <<"LIMIT", ToString(limit)>>

\* getLimitSyntax(limit, offset) of MySQLDriver and MariadbDriver, and of
\* PostgreSQLDriver, for non-negative integers
GetLimitSyntax(limit, offset) ==
    IF IsPostgres THEN <<"LIMIT", ToString(limit), "OFFSET", ToString(offset)>>
    ELSE IF offset > 0 THEN <<"LIMIT", ToString(offset), ",", ToString(limit)>>
    ELSE <<"LIMIT", ToString(limit)>>

-----------------------------------------------------------------------------
(* QueryBuilder: compilation and the compiled-query cache *)

\* a cache key that leaves the pagination out: C27 does not hold of it
GenerateCacheKeyWithoutLimit(b) ==
    [select |-> b.selectFields, from |-> b.fromTable.text, joins |-> Texts(b.joinClauses),
     where |-> Texts(b.whereClauses), groupBy |-> b.groupByFields,
     having |-> Texts(b.havingClauses), orderBy |-> b.orderByFields,
     distinct |-> b.distinctFlag,
     cte |-> Texts(b.cteQueries), unions |-> Texts(b.subqueries)]

\* _generateCacheKey(): JSON.stringify of the clause texts (params are not part of it)
GenerateCacheKey(b) ==
    [select |-> b.selectFields, from |-> b.fromTable.text, joins |-> Texts(b.joinClauses),
     where |-> Texts(b.whereClauses), groupBy |-> b.groupByFields,
     having |-> Texts(b.havingClauses), orderBy |-> b.orderByFields,
     limit |-> b.limitValue, offset |-> b.offsetValue, distinct |-> b.distinctFlag,
     cte |-> Texts(b.cteQueries), unions |-> Texts(b.subqueries)]

\* the body of buildSelectQuery() between the cache lookup and the cache insertion
CompileSelect(b) ==
    (IF Len(b.cteQueries) > 0
        THEN <<"WITH">> \o JoinWith(Texts(b.cteQueries), <<",">>) ELSE <<>>)
    \o <<"SELECT">>
    \o (IF b.distinctFlag THEN <<"DISTINCT">> ELSE <<>>)
    \o JoinWith(Strs(b.selectFields), <<",">>)
    \o (IF b.fromTable.text # <<>> THEN <<"FROM">> \o b.fromTable.text ELSE <<>>)
    \o Flatten(Texts(b.joinClauses))
    \o (IF Len(b.whereClauses) > 0
        THEN <<"WHERE">> \o Flatten(Texts(b.whereClauses)) ELSE <<>>)
    \o (IF Len(b.groupByFields) > 0
        THEN <<"GROUP", "BY">> \o JoinWith(Strs(b.groupByFields), <<",">>) ELSE <<>>)
    \o (IF Len(b.havingClauses) > 0
        THEN <<"HAVING">> \o Flatten(Texts(b.havingClauses)) ELSE <<>>)
    \o (IF Len(b.orderByFields) > 0
        THEN <<"ORDER", "BY">> \o JoinWith(Strs(b.orderByFields), <<",">>) ELSE <<>>)
    \o (IF b.limitValue # <<>>
        THEN GetLimitSyntax(b.limitValue[1],
                            IF b.offsetValue = <<>> THEN 0 ELSE b.offsetValue[1])
        ELSE <<>>)
    \o Flatten(Texts(b.subqueries))

CacheHas(cache, key) == \E e \in cache : e.key = key
CacheGet(cache, key) == (CHOOSE e \in cache : e.key = key).sql

\* a cache insertion without the size test: C11 does not hold of it
CacheStoreUnbounded(cache, key, sql) == cache \union {[key |-> key, sql |-> sql]}

\* a cache insertion placed before the pagination clause is appended: C10 does not
\* hold of it
CacheStoreBeforeLimit(cache, key, sql) ==
    LET cut == IF \E i \in 1..Len(sql) : sql[i] = "LIMIT"
               THEN (CHOOSE i \in 1..Len(sql) : sql[i] = "LIMIT") - 1
               ELSE Len(sql)
    IN IF Cardinality(cache) < MaxCache
       THEN cache \union {[key |-> key, sql |-> SubSeq(sql, 1, cut)]}
       ELSE cache

\* the cache insertion of buildSelectQuery(): nothing is stored once the cache is full
CacheStore(cache, key, sql) ==
    IF Cardinality(cache) < MaxCache THEN cache \union {[key |-> key, sql |-> sql]}
    ELSE cache

\* the text buildSelectQuery() returns
BuildSelectQuery(b) ==
    IF CacheHas(b.queryCache, GenerateCacheKey(b))
    THEN CacheGet(b.queryCache, GenerateCacheKey(b))
    ELSE CompileSelect(b)

\* the builder after buildSelectQuery()
AfterBuild(b) ==
    IF CacheHas(b.queryCache, GenerateCacheKey(b)) THEN b
    ELSE [b EXCEPT !.queryCache = CacheStore(@, GenerateCacheKey(b), CompileSelect(b))]

\* the placeholder values of the compiled SELECT, in the order of its text
\* (history: the binds of the parts, concatenated in the order CompileSelect writes them)
SelectBinds(b) ==
    Binds(b.cteQueries) \o b.fromTable.binds \o Binds(b.joinClauses)
    \o Binds(b.whereClauses) \o Binds(b.havingClauses) \o Binds(b.subqueries)

-----------------------------------------------------------------------------
(* QueryBuilder: the where family *)

ValidateWhereCountThrows(b) ==
    b.validation.enabled /\ Len(b.whereClauses) >= b.validation.maxWhereConditions
ValidateJoinCountThrows(b) ==
    b.validation.enabled /\ Len(b.joinClauses) >= b.validation.maxJoins
ValidateGroupByCountThrows(b) ==
    b.validation.enabled /\ Len(b.groupByFields) >= b.validation.maxGroupByFields
ValidateOrderByCountThrows(b) ==
    b.validation.enabled /\ Len(b.orderByFields) >= b.validation.maxOrderByFields
\* _validateSelectFields(fields) with an array
ValidateSelectFieldsThrows(b, fields) ==
    b.validation.enabled /\ Len(fields) > b.validation.maxSelectFields

\* select(fields) with an array of expressions
SelectList(b, fields) == [b EXCEPT !.selectFields = fields, !.currentOperation = "SELECT"]

\* join(table, condition, type) without alias
Join(b, table, condition, type) ==
    [b EXCEPT !.joinClauses =
        Append(@, Frag(<<type, "JOIN", Esc(table), "ON", condition>>, <<>>, "none"))]

\* groupBy(fields) with a string, and with an array of non-empty strings
GroupBy(b, fields) == [b EXCEPT !.groupByFields = Append(@, Esc(fields))]
GroupByList(b, fields) ==
    [b EXCEPT !.groupByFields = @ \o [i \in 1..Len(fields) |-> Esc(fields[i])]]

\* orderBy(field, direction) with direction ASC or DESC
OrderBy(b, field, direction) ==
    [b EXCEPT !.orderByFields = Append(@, Esc(field) \o " " \o direction)]

\* _addWhereClause with the connector test off by one: C9 does not hold of it
AddWhereClauseLateConnector(b, condition, intended, value) ==
    LET text == IF Len(b.whereClauses) > 1 THEN <<"AND">> \o condition ELSE condition
    IN [b EXCEPT !.whereClauses = Append(@, Frag(text, intended, "and")),
                 !.params = IF IsNullish(value) THEN @
                            ELSE IF value.isArray THEN @ \o Spread(value)
                            ELSE Append(@, value)]

\* _addWhereClause(condition, value); intended is the history of the fragment
AddWhereClause(b, condition, intended, value) ==
    LET text == IF Len(b.whereClauses) > 0 THEN <<"AND">> \o condition ELSE condition
    IN [b EXCEPT !.whereClauses = Append(@, Frag(text, intended, "and")),
                 !.params = IF IsNullish(value) THEN @
                            ELSE IF value.isArray THEN @ \o Spread(value)
                            ELSE Append(@, value)]

\* the push of the OR branches of orWhere / orWhereLike / _addOrWhereGroup
PushOrWhere(b, condition, intended, values) ==
    [b EXCEPT !.whereClauses = Append(@, Frag(<<"OR">> \o condition, intended, "or")),
              !.params = @ \o values]

\* where(field, value, operator) with a string field
WhereValue(b, field, value, operator) ==
    IF ~IsNullish(value)
    THEN AddWhereClause(b, <<Esc(field), operator, "?">>, <<value>>, value)
    ELSE AddWhereClause(b, <<field>>, <<>>, NullV)

\* where(object): one fragment per entry
RECURSIVE WhereMap(_, _)
WhereMap(b, map) ==
    IF map = <<>> THEN b
    ELSE WhereMap(AddWhereClause(b, <<Esc(Head(map).k), "=", "?">>,
                                 <<Head(map).v>>, Head(map).v),
                  Tail(map))

MapConditions(map) ==
    JoinWith([i \in 1..Len(map) |-> <<Esc(map[i].k), "=", "?">>], <<"AND">>)
MapValues(map) == [i \in 1..Len(map) |-> map[i].v]

\* orWhere(field, value, operator) with a string field
OrWhereValue(b, field, value, operator) ==
    IF Len(b.whereClauses) = 0 THEN WhereValue(b, field, value, operator)
    ELSE IF ~IsNullish(value)
    THEN PushOrWhere(b, <<Esc(field), operator, "?">>, <<value>>, <<value>>)
    ELSE PushOrWhere(b, <<field>>, <<>>, <<>>)

\* orWhere(object)
OrWhereMap(b, map) ==
    IF Len(b.whereClauses) = 0 THEN WhereMap(b, map)
    ELSE PushOrWhere(b, <<"(">> \o MapConditions(map) \o <<")">>,
                     MapValues(map), MapValues(map))

\* whereIn(field, values): _validateArrayValues rejects an empty list
WhereInThrows(b, values) == ValidateWhereCountThrows(b) \/ Len(values) = 0
WhereIn(b, field, values) ==
    LET placeholders == JoinWith([i \in 1..Len(values) |-> <<"?">>], <<",">>)
        c == AddWhereClause(b, <<Esc(field), "IN", "(">> \o placeholders \o <<")">>,
                            values, NullV)
    IN [c EXCEPT !.params = @ \o values]

WhereBetween(b, field, min, max) ==
    AddWhereClause(b, <<Esc(field), "BETWEEN", "?", "AND", "?">>, <<min, max>>,
                   Arr(<<min.items[1], max.items[1]>>))

WhereLike(b, field, value) ==
    AddWhereClause(b, <<Esc(field), "LIKE", "?">>, <<value>>, value)

OrWhereLike(b, field, value) ==
    IF Len(b.whereClauses) = 0 THEN WhereLike(b, field, value)
    ELSE PushOrWhere(b, <<Esc(field), "LIKE", "?">>, <<value>>, <<value>>)

\* whereRaw(expression, bindings) with an array of bindings
WhereRaw(b, expression, bindings) ==
    LET c == AddWhereClause(b, expression, bindings, NullV)
    IN [c EXCEPT !.params = @ \o bindings]

-----------------------------------------------------------------------------
(* QueryBuilder: clone, sub-builders and the callbacks handed to them *)

\* a clone() that hands over whereClauses and params without copying them: C19 does
\* not hold of it
CloneAliasesWhere == {"whereClauses", "params"}

\* the containers of the original that the clone refers to as well: none, clone()
\* spreads every list into a new array and updateData into a new object
CloneAliases == {}

\* the builder `other` after the builder `written` has changed, in place, containers
\* that both refer to
Mirror(written, other, aliases) ==
    [f \in DOMAIN other |-> IF f \in aliases THEN written[f] ELSE other[f]]

Clone(b) ==
    [NewBuilder EXCEPT !.selectFields = b.selectFields,
                       !.fromTable = b.fromTable,
                       !.joinClauses = b.joinClauses,
                       !.whereClauses = b.whereClauses,
                       !.groupByFields = b.groupByFields,
                       !.havingClauses = b.havingClauses,
                       !.orderByFields = b.orderByFields,
                       !.limitValue = b.limitValue,
                       !.offsetValue = b.offsetValue,
                       !.distinctFlag = b.distinctFlag,
                       !.params = b.params,
                       !.updateData = b.updateData,
                       !.cteQueries = b.cteQueries,
                       !.subqueries = b.subqueries,
                       !.validation = b.validation]

\* The callbacks a caller passes to the subquery methods:
\*   "plain":    q => q.from('u')
\*   "filtered": q => q.from('u').where('b', 2)
SubScripts == {"plain", "filtered"}

\* subBuilder = new QueryBuilder(...); subBuilder.isSubquery = true; subquery(subBuilder)
SubBuilder(script) ==
    LET fresh == [NewBuilder EXCEPT !.isSubquery = TRUE]
    IN IF script = "filtered" THEN WhereValue(From(fresh, "u"), "b", V2, "=")
       ELSE From(fresh, "u")

\* The callbacks a caller passes to where(callback) / orWhere(callback):
\*   "empty": g => {}
\*   "pair":  g => g.where('a', 1).orWhere('b', 2)
\*   "busy":  g => g.select('x').limit(5).where('a', 1).orWhere('b', 2)
GroupScripts == {"empty", "pair"}

\* a group builder that keeps the where list and the params of the outer builder: C31
\* does not hold of it
GroupBuilderKeeping(b, script) ==
    IF script = "empty" THEN Clone(b)
    ELSE OrWhereValue(WhereValue(Clone(b), "a", V1, "="), "b", V2, "=")

GroupBuilder(b, script) ==
    LET g == [Clone(b) EXCEPT !.whereClauses = <<>>, !.params = <<>>]
    IN IF script = "pair" THEN OrWhereValue(WhereValue(g, "a", V1, "="), "b", V2, "=")
       ELSE IF script = "busy"
       THEN OrWhereValue(WhereValue(Limit(Select(g, "x"), 5), "a", V1, "="), "b", V2, "=")
       ELSE g

AddWhereGroup(b, script) ==
    LET g == GroupBuilder(b, script)
    IN IF Len(g.whereClauses) > 0
       THEN LET c == AddWhereClause(b, <<"(">> \o Flatten(Texts(g.whereClauses)) \o <<")">>,
                                    Binds(g.whereClauses), NullV)
            IN [c EXCEPT !.params = @ \o g.params]
       ELSE b

AddOrWhereGroup(b, script) ==
    LET g == GroupBuilder(b, script)
    IN IF Len(g.whereClauses) > 0
       THEN PushOrWhere(b, <<"(">> \o Flatten(Texts(g.whereClauses)) \o <<")">>,
                        Binds(g.whereClauses), g.params)
       ELSE b

\* orWhere(callback)
OrWhereGroup(b, script) ==
    IF Len(b.whereClauses) = 0 THEN AddWhereGroup(b, script) ELSE AddOrWhereGroup(b, script)

\* whereSubquery(field, operator, callback)
WhereSubquery(b, field, operator, script) ==
    LET sub == SubBuilder(script)
        c == AddWhereClause(b, <<Esc(field), operator, "(">> \o BuildSelectQuery(sub) \o <<")">>,
                            SelectBinds(sub), NullV)
    IN [c EXCEPT !.params = @ \o sub.params]

\* whereExists(callback) (negated = FALSE) and whereNotExists(callback) (negated = TRUE)
WhereExists(b, negated, script) ==
    LET sub == SubBuilder(script)
        kw == IF negated THEN <<"NOT", "EXISTS">> ELSE <<"EXISTS">>
        c == AddWhereClause(b, kw \o <<"(">> \o BuildSelectQuery(sub) \o <<")">>,
                            SelectBinds(sub), NullV)
    IN [c EXCEPT !.params = @ \o sub.params]

\* joinSubquery(callback, alias, condition, type)
JoinSubquery(b, script, alias, condition, type) ==
    LET sub == SubBuilder(script)
        text == <<type, "JOIN", "(">> \o BuildSelectQuery(sub)
                \o <<")", "AS", Esc(alias), "ON", condition>>
    IN [b EXCEPT !.joinClauses = Append(@, Frag(text, SelectBinds(sub), "none")),
                 !.params = @ \o sub.params]

\* fromSubquery(callback, alias)
FromSubquery(b, script, alias) ==
    LET sub == SubBuilder(script)
        text == <<"(">> \o BuildSelectQuery(sub) \o <<")", "AS", Esc(alias)>>
    IN [b EXCEPT !.fromTable = Frag(text, SelectBinds(sub), "none"),
                 !.params = @ \o sub.params]

\* the builders the callbacks of with() and union() leave behind:
\* q => q.from('u') and q => q.from('u').where('b', v)
Filtered(v) == WhereValue(From([NewBuilder EXCEPT !.isSubquery = TRUE], "u"), "b", v, "=")
CallbackBuilders == {SubBuilder("plain"), Filtered(V1), Filtered(V2)}

\* with(name, query) with a callback, whose builder is cteBuilder when it returns
With(b, name, cteBuilder) ==
    LET text == <<Esc(name), "AS", "(">> \o BuildSelectQuery(cteBuilder) \o <<")">>
    IN [b EXCEPT !.cteQueries = Append(@, Frag(text, SelectBinds(cteBuilder), "none")),
                 !.params = cteBuilder.params \o @]
WithThrows(name) == name = "" \/ ~IsPostgres

\* union(query, all) with a callback, whose builder is unionBuilder when it returns;
\* unionAll(query) is union(query, true)
Union(b, unionBuilder, all) ==
    LET unionType == IF all THEN <<"UNION", "ALL">> ELSE <<"UNION">>
        text == unionType \o <<"(">> \o BuildSelectQuery(unionBuilder) \o <<")">>
    IN [b EXCEPT !.subqueries = Append(@, Frag(text, SelectBinds(unionBuilder), "none")),
                 !.params = @ \o unionBuilder.params]

\* withRecursive(name, query): the code of with(), with another error message
WithRecursive(b, name, cteBuilder) == With(b, name, cteBuilder)

-----------------------------------------------------------------------------
(* QueryBuilder: the having family *)

PushHaving(b, condition, intended, values) ==
    LET text == IF Len(b.havingClauses) > 0 THEN <<"AND">> \o condition ELSE condition
    IN [b EXCEPT !.havingClauses = Append(@, Frag(text, intended, "and")),
                 !.params = @ \o values]

PushOrHaving(b, condition, intended, values) ==
    [b EXCEPT !.havingClauses = Append(@, Frag(<<"OR">> \o condition, intended, "or")),
              !.params = @ \o values]

\* having(field, value, operator) with a string field
HavingValue(b, field, value, operator) ==
    IF ~IsNullish(value)
    THEN PushHaving(b, <<Esc(field), operator, "?">>, <<value>>, <<value>>)
    ELSE PushHaving(b, <<field>>, <<>>, <<>>)

\* having(object)
RECURSIVE HavingMap(_, _)
HavingMap(b, map) ==
    IF map = <<>> THEN b
    ELSE HavingMap(PushHaving(b, <<Esc(Head(map).k), "=", "?">>,
                              <<Head(map).v>>, <<Head(map).v>>),
                   Tail(map))

\* orHaving(field, value, operator) with a string field
OrHavingValue(b, field, value, operator) ==
    IF Len(b.havingClauses) = 0 THEN HavingValue(b, field, value, operator)
    ELSE IF ~IsNullish(value)
    THEN PushOrHaving(b, <<Esc(field), operator, "?">>, <<value>>, <<value>>)
    ELSE PushOrHaving(b, <<field>>, <<>>, <<>>)

\* orHaving(object)
OrHavingMap(b, map) ==
    IF Len(b.havingClauses) = 0 THEN HavingMap(b, map)
    ELSE PushOrHaving(b, <<"(">> \o MapConditions(map) \o <<")">>,
                      MapValues(map), MapValues(map))

\* havingRaw(expression, bindings) with an array of bindings
HavingRaw(b, expression, bindings) == PushHaving(b, expression, bindings, bindings)

-----------------------------------------------------------------------------
(* QueryBuilder: set() and the terminal methods *)

\* set(field, value) with a string field; updateData is the object, in key order
RECURSIVE PutEntry(_, _, _)
PutEntry(map, k, v) ==
    IF map = <<>> THEN <<Entry(k, v)>>
    ELSE IF Head(map).k = k THEN <<Entry(k, v)>> \o Tail(map)
    ELSE <<Head(map)>> \o PutEntry(Tail(map), k, v)

Set(b, field, value) == [b EXCEPT !.updateData = PutEntry(@, field, value)]

Returning == IF IsPostgres THEN <<"RETURNING", "*">> ELSE <<>>
EscapedFields(map) == JoinWith([i \in 1..Len(map) |-> <<Esc(map[i].k)>>], <<",">>)
Placeholders(map) == JoinWith([i \in 1..Len(map) |-> <<"?">>], <<",">>)
WherePart(b) ==
    IF Len(b.whereClauses) > 0 THEN <<"WHERE">> \o Flatten(Texts(b.whereClauses)) ELSE <<>>

(* A call of a terminal method is the record                                *)
(*   throws: the method throws before it reaches driver.execute             *)
(*   pre:    the builder when it throws, or when driver.execute is awaited  *)
(*   sql, params: the statement handed to driver.execute                    *)
(*   binds:  (history) the values the caller gave for the statement's       *)
(*           placeholders, in the order of the text                         *)
(*   post:   the builder when the method returns after a successful execute *)
Call(throws, pre, sql, params, binds, post) ==
    [throws |-> throws, pre |-> pre, sql |-> sql, params |-> params,
     binds |-> binds, post |-> post]

\* executeQuery(sql, params) when driver.execute has resolved: this.lastQuery = {...}
Executed(b, sql, params) ==
    [b EXCEPT !.lastQuery = [set |-> TRUE, sql |-> sql, params |-> params]]

\* get(): _validateQueryState, buildSelectQuery, executeQuery, reset.  (The other
\* terminal methods call reset() after executeQuery as get() does; reset() clears
\* lastQuery, so their post is written Reset(pre).)
Get(b) ==
    LET throws == b.fromTable.text = <<>> /\ b.currentOperation = "SELECT"
        pre == IF throws THEN b ELSE AfterBuild(b)
    IN Call(throws, pre, BuildSelectQuery(b), b.params, SelectBinds(b),
            Reset(Executed(pre, BuildSelectQuery(b), b.params)))

\* query(sql, params) with an array of params; sql <<>> is the empty string
QueryRaw(b, sql, params) ==
    Call(sql = <<>>, b, sql, params, params, Executed(b, sql, params))

\* first(): limit(1).get()
First(b) == Get(Limit(b, 1))

\* a count(field) that does not write selectFields back: C17 does not hold of it
CountWithoutRestore(b, field) ==
    LET countField == IF field = "*" THEN "*" ELSE Esc(field)
    IN Get([b EXCEPT !.selectFields = <<"COUNT(" \o countField \o ") as count">>,
                     !.limitValue = <<>>,
                     !.offsetValue = <<>>])

\* count(field): the swap of selectFields/limit/offset, get(), the restore
Count(b, field) ==
    LET countField == IF field = "*" THEN "*" ELSE Esc(field)
        swapped == [b EXCEPT !.selectFields = <<"COUNT(" \o countField \o ") as count">>,
                             !.limitValue = <<>>,
                             !.offsetValue = <<>>]
        g == Get(swapped)
    IN [g EXCEPT !.post = [@ EXCEPT !.selectFields = b.selectFields,
                                    !.limitValue = b.limitValue,
                                    !.offsetValue = b.offsetValue]]

\* exists(): the swap of selectFields/limit, get(), the restore
Exists(b) ==
    LET swapped == [b EXCEPT !.selectFields = <<"1">>, !.limitValue = <<1>>]
        g == Get(swapped)
    IN [g EXCEPT !.post = [@ EXCEPT !.selectFields = b.selectFields,
                                    !.limitValue = b.limitValue]]

\* insert(table, data) with one object
Insert(b, table, data) ==
    Call(Len(data) = 0, b,
         <<"INSERT", "INTO", Esc(table), "(">> \o EscapedFields(data)
            \o <<")", "VALUES", "(">> \o Placeholders(data) \o <<")">> \o Returning,
         MapValues(data), MapValues(data), Reset(b))

\* _arraysEqual compared by length only: C12 does not hold of it
ArraysEqualByLength(arr1, arr2) == Len(arr1) = Len(arr2)

\* _arraysEqual(arr1, arr2)
ArraysEqual(arr1, arr2) ==
    IF Len(arr1) # Len(arr2) THEN FALSE
    ELSE \A index \in 1..Len(arr1) : arr1[index] = arr2[index]

\* Object.keys(row), and row[field]: undefined, here the null value, without the field
Keys(row) == [i \in 1..Len(row) |-> row[i].k]
Field(row, field) ==
    LET found == {e \in {row[i] : i \in 1..Len(row)} : e.k = field}
    IN IF found = {} THEN NullV ELSE (CHOOSE e \in found : TRUE).v

\* insertBatch(table, data) with an array of objects; insert(table, data) with an array
\* passes _validateInsertData and is insertBatch(table, data)
InsertBatch(b, table, data) ==
    LET empty == IF Len(data) = 0 THEN TRUE ELSE Len(data[1]) = 0
        fields == IF empty THEN <<>> ELSE Keys(data[1])
        throws == empty \/ \E r \in 1..Len(data) : ~ArraysEqual(fields, Keys(data[r]))
        rowValues(row) == [f \in 1..Len(fields) |-> Field(row, fields[f])]
        values == IF throws THEN <<>>
                  ELSE Flatten([r \in 1..Len(data) |-> rowValues(data[r])])
        placeholders == [r \in 1..Len(data) |-> <<"(">> \o Placeholders(data[1]) \o <<")">>]
        sql == IF throws THEN <<>>
               ELSE <<"INSERT", "INTO", Esc(table), "(">> \o EscapedFields(data[1])
                       \o <<")", "VALUES">> \o JoinWith(placeholders, <<",">>)
    IN Call(throws, b, sql, values, values, Reset(b))

\* a filter that keeps every field: C22 does not hold of it
WithoutNone(map, cols) == map

RECURSIVE Without(_, _)
Without(map, cols) ==
    IF map = <<>> THEN <<>>
    ELSE IF Head(map).k \in cols THEN Without(Tail(map), cols)
    ELSE <<Head(map)>> \o Without(Tail(map), cols)

\* insertOrUpdate(table, data, conflictColumns); conflictColumns <<>> is null
InsertOrUpdate(b, table, data, conflictColumns) ==
    LET head == <<"INSERT", "INTO", Esc(table), "(">> \o EscapedFields(data)
                \o <<")", "VALUES", "(">> \o Placeholders(data) \o <<")">>
        myUpdates == JoinWith([i \in 1..Len(data) |->
                        <<Esc(data[i].k), "=", "VALUES(" \o Esc(data[i].k) \o ")">>], <<",">>)
        rest == Without(data, {conflictColumns[i] : i \in 1..Len(conflictColumns)})
        pgUpdates == JoinWith([i \in 1..Len(rest) |->
                        <<Esc(rest[i].k), "=", "EXCLUDED." \o Esc(rest[i].k)>>], <<",">>)
        pgCols == JoinWith([i \in 1..Len(conflictColumns) |-> <<Esc(conflictColumns[i])>>],
                           <<",">>)
        sql == IF IsPostgres
               THEN head \o <<"ON", "CONFLICT", "(">> \o pgCols \o <<")">>
                    \o (IF Len(rest) > 0 THEN <<"DO", "UPDATE", "SET">> \o pgUpdates
                        ELSE <<"DO", "NOTHING">>)
                    \o <<"RETURNING", "*">>
               ELSE head \o <<"ON", "DUPLICATE", "KEY", "UPDATE">> \o myUpdates
    IN Call(Len(data) = 0 \/ (IsPostgres /\ conflictColumns = <<>>), b,
            sql, MapValues(data), MapValues(data), Reset(b))

\* update(table, data, where); data <<>> is null, where <<>> is null
Update(b, table, data, where) ==
    LET updateData == IF data # <<>> THEN data ELSE b.updateData
        throws == updateData = <<>>
        w == IF throws \/ where = <<>> THEN b ELSE WhereMap(b, where)
        setClauses == JoinWith([i \in 1..Len(updateData) |->
                                   <<Esc(updateData[i].k), "=", "?">>], <<",">>)
    IN Call(throws, w,
            <<"UPDATE", Esc(table), "SET">> \o setClauses \o WherePart(w) \o Returning,
            MapValues(updateData) \o w.params,
            MapValues(updateData) \o Binds(w.whereClauses),
            Reset(w))

\* increment(table, field, amount, where)
Increment(b, table, field, amount, where) ==
    LET w == IF where = <<>> THEN b ELSE WhereMap(b, where)
    IN Call(FALSE, w,
            <<"UPDATE", Esc(table), "SET", Esc(field), "=", Esc(field), "+", "?">>
                \o WherePart(w),
            <<amount>> \o w.params,
            <<amount>> \o Binds(w.whereClauses),
            Reset(w))

\* delete(table, where); table "" is null, where <<>> is null
Delete(b, table, where) ==
    LET t == IF table # "" THEN [b EXCEPT !.fromTable = Frag(<<Esc(table)>>, <<>>, "none")]
             ELSE b
        w == IF where = <<>> THEN t ELSE WhereMap(t, where)
    IN Call(w.fromTable.text = <<>>, w,
            <<"DELETE", "FROM">> \o w.fromTable.text \o WherePart(w) \o Returning,
            w.params,
            w.fromTable.binds \o Binds(w.whereClauses),
            Reset(w))

-----------------------------------------------------------------------------
(* Driver: transaction control *)

Stmt(kind, ok) == [stmt |-> kind, ok |-> ok]

\* driver.beginTransaction() / commitTransaction() / rollbackTransaction(): one
\* transaction statement ("begin", "commit", "rollback") goes through the execute
\* channel, which accepts it (ok) or fails
DriverTransaction(kind, ok) ==
    [sent |-> <<Stmt(kind, ok)>>, err |-> IF ok THEN "none" ELSE kind \o "Failed"]

\* the transaction of the connection after the driver has received one statement: an
\* accepted begin opens it, an accepted commit or rollback ends it, a rejected begin
\* changes nothing, and after a rejected commit or rollback of an open transaction
\* its state is not known
DriverTxStep(state, s) ==
    IF s.ok THEN (IF s.stmt = "begin" THEN "open" ELSE "none")
    ELSE IF s.stmt # "begin" /\ state = "open" THEN "unknown" ELSE state

RECURSIVE DriverTxAfter(_, _)
DriverTxAfter(state, stmts) ==
    IF stmts = <<>> THEN state
    ELSE DriverTxAfter(DriverTxStep(state, Head(stmts)), Tail(stmts))

-----------------------------------------------------------------------------
(* QueryBuilder: transactions *)

\* The outcome of a transaction method: the builder it leaves, the statements it
\* sent to the driver, the error it throws ("none" when it returns).
Outcome(b, stmts, err) == [b |-> b, sent |-> stmts, err |-> err]

\* beginTransaction() with its guard removed: C7 does not hold of it
BeginTransactionUnguarded(b, ok) ==
    LET d == DriverTransaction("begin", ok)
    IN Outcome(IF ok THEN [b EXCEPT !.inTransaction = TRUE] ELSE b, d.sent, d.err)

BeginTransaction(b, ok) ==
    IF b.inTransaction THEN Outcome(b, <<>>, "StateError")
    ELSE LET d == DriverTransaction("begin", ok)
         IN Outcome(IF ok THEN [b EXCEPT !.inTransaction = TRUE] ELSE b, d.sent, d.err)

\* commitTransaction() with its guard removed: C8 does not hold of it
CommitTransactionUnguarded(b, ok) ==
    LET d == DriverTransaction("commit", ok)
    IN Outcome(IF ok THEN [b EXCEPT !.inTransaction = FALSE] ELSE b, d.sent, d.err)

CommitTransaction(b, ok) ==
    IF ~b.inTransaction THEN Outcome(b, <<>>, "StateError")
    ELSE LET d == DriverTransaction("commit", ok)
         IN Outcome(IF ok THEN [b EXCEPT !.inTransaction = FALSE] ELSE b, d.sent, d.err)

RollbackTransaction(b, ok) ==
    IF ~b.inTransaction THEN Outcome(b, <<>>, "StateError")
    ELSE LET d == DriverTransaction("rollback", ok)
         IN Outcome(IF ok THEN [b EXCEPT !.inTransaction = FALSE] ELSE b, d.sent, d.err)

\* a finally block that leaves the depth as it is: C32 does not hold of it
TransactionFinallyKeepingDepth(b) ==
    IF b.transactionDepth = 1 THEN [b EXCEPT !.inTransaction = FALSE] ELSE b

\* the finally block of transaction(callback)
TransactionFinally(b) ==
    LET d == [b EXCEPT !.transactionDepth = @ - 1]
    IN IF d.transactionDepth = 0 THEN [d EXCEPT !.inTransaction = FALSE] ELSE d

\* transaction(callback) up to the call of the callback: a failing begin leaves the
\* method before its try block
TransactionEnter(b, ok) ==
    LET isNestedTransaction == b.inTransaction
        r == IF isNestedTransaction THEN Outcome(b, <<>>, "none")
             ELSE BeginTransaction(b, ok)
    IN [nested |-> isNestedTransaction, sent |-> r.sent, err |-> r.err,
        b |-> IF r.err = "none" THEN [r.b EXCEPT !.transactionDepth = @ + 1] ELSE r.b]

\* transaction(callback) from an error thrown inside its try block: catch, finally
TransactionCatch(b, isNestedTransaction, error, rollbackOk) ==
    IF isNestedTransaction THEN Outcome(TransactionFinally(b), <<>>, error)
    ELSE LET r == RollbackTransaction(b, rollbackOk)
         IN Outcome(TransactionFinally(r.b), r.sent,
                    IF r.err # "none" THEN r.err ELSE error)

\* transaction(callback) committing at every level, nested or not: C5 does not hold
\* of it
TransactionReturnEveryLevel(b, isNestedTransaction, commitOk, rollbackOk) ==
    LET c == CommitTransaction(b, commitOk)
    IN IF c.err = "none" THEN Outcome(TransactionFinally(c.b), c.sent, "none")
       ELSE LET r == TransactionCatch(c.b, FALSE, c.err, rollbackOk)
            IN Outcome(r.b, c.sent \o r.sent, r.err)

\* transaction(callback) from the return of its callback: commit, finally
TransactionReturn(b, isNestedTransaction, commitOk, rollbackOk) ==
    IF isNestedTransaction THEN Outcome(TransactionFinally(b), <<>>, "none")
    ELSE LET c == CommitTransaction(b, commitOk)
         IN IF c.err = "none" THEN Outcome(TransactionFinally(c.b), c.sent, "none")
            ELSE LET r == TransactionCatch(c.b, FALSE, c.err, rollbackOk)
                 IN Outcome(r.b, c.sent \o r.sent, r.err)

-----------------------------------------------------------------------------
(* The state machine: initial state and the inputs of the calls *)

DriverTypes == {"mysql", "postgres"}

\* calls: the driver.execute calls the method made
NoSent ==
    [set |-> FALSE, op |-> "none", sql |-> <<>>, params |-> <<>>, binds |-> <<>>,
     calls |-> 0]

\* an executeQuery that tries a failed statement once more: C15 does not hold of it
ExecuteQueryRetrying(op, call, ok) ==
    [set |-> TRUE, op |-> op, sql |-> call.sql, params |-> call.params,
     binds |-> call.binds, calls |-> IF ok THEN 1 ELSE 2]

\* executeQuery(sql, params): one await of driver.execute, whose error is rethrown
ExecuteQuery(op, call, ok) ==
    [set |-> TRUE, op |-> op, sql |-> call.sql, params |-> call.params,
     binds |-> call.binds, calls |-> 1]
\* the clauses and params of a builder: everything but its compiled-query cache
Query(b) == [b EXCEPT !.queryCache = {}]

\* compiled: the number of consecutive compilations of the present query (counted up
\* to MaxCompiles), the text the first and the latest of them returned, and the
\* query as it was when the first of them was called
NoCompiled == [calls |-> 0, first |-> <<>>, last |-> <<>>, state |-> Query(NewBuilder)]
\* arg: (history) the argument of the call, where a property speaks of it
CalledWith(op, status, arg) == [op |-> op, status |-> status, arg |-> arg]
Called(op, status) == CalledWith(op, status, <<>>)

\* chunk: pc is where the call stands ("idle": none made; "get": before
\* builderClone.get(); "await": inside it, the statement being with the driver;
\* "callback": before callback(chunk, page); "done"; "threw");
\* size, offset, processedRows and page (the rows of the awaited chunk, as their first
\* and last positions in the result) are the locals of chunk(); rows is the number of
\* rows the query matches; gets counts the pages requested, calls lists the callback
\* invocations, result is the value returned; (history) inflight counts the statements
\* the driver has not answered yet, offsets lists the offsets of the pages requested,
\* before is the query of the builder when chunk() was called
NoPage == [from |-> 1, to |-> 0]
NoChunk ==
    [pc |-> "idle", size |-> 0, rows |-> 0, offset |-> 0, processedRows |-> 0,
     page |-> NoPage, gets |-> 0, calls |-> <<>>, result |-> -1,
     inflight |-> 0, offsets |-> <<>>, before |-> Query(NewBuilder)]
\* inTransaction: the clone's own flag, false after its constructor; began: the state of
\* the connection's transaction when the clone's last begin reached the driver;
\* alone: the two builders as they would be had each one's calls been the only calls
\* made since the second builder was obtained; ran: which of the two ("qb", "twin") has
\* handed a statement to the driver since
NoTwin ==
    [made |-> FALSE, b |-> Query(NewBuilder), shares |-> {}, inTransaction |-> FALSE,
     began |-> "never", alone |-> [qb |-> NewBuilder, twin |-> NewBuilder], ran |-> {}]

\* new Database(config) with config.autoConnect false: connection is null, and handed
\* counts the QueryBuilder objects builder() has constructed and returned
\* ---- the drivers' execute(sql, params) ----

\* the most execute calls followed on one driver
MaxCalls == 2

\* a driver after construction. timed: execute races the transport call against a timer
\* of queryTimeout ms (MariadbDriver, PostgreSQLDriver and the MySQLDriver that has
\* queryTimeout); the other MySQLDriver awaits the transport call alone and keeps no
\* metrics
NewDriver(timed) ==
    [timed |-> timed,
     calls |-> <<>>,
     placeholderCache |-> {},
     metrics |-> [queriesExecuted |-> 0, errorsCount |-> 0]]

\* an execute call that has started its transport call and awaits it.
\* first: which of the two came first, the transport's settling or the end of
\* queryTimeout; settles: how often execute has returned or thrown; measured: how often
\* it has updated the metrics
NewCall(sql, params, sentSql) ==
    [sql |-> sql, params |-> params, sent |-> [sql |-> sentSql, params |-> params],
     pc |-> "racing", transport |-> "pending", elapsed |-> FALSE, first |-> "none",
     outcome |-> "none", settles |-> 0, measured |-> 0]

\* the longest statement text, in tokens, given to execute
MaxText == 2

\* config.maxPreparedStatements, the most entries the placeholder cache takes
MaxPreparedStatements == 1

\* the statement texts given to execute: "?" is a question mark, "x" any other text
SqlTexts == UNION {[1..n -> {"?", "x"}] : n \in 0..MaxText}

\* the text `$${paramIndex}`
Dollar(paramIndex) == "$" \o ToString(paramIndex)

\* a replacement that does not count: C34 does not hold of it
ReplaceWithoutCounting(sql, paramIndex) ==
    [k \in 1..Len(sql) |-> IF sql[k] = "?" THEN Dollar(paramIndex) ELSE sql[k]]

\* sql.replace(/\?/g, () => `$${paramIndex++}`)
RECURSIVE ReplacePlaceholders(_, _)
ReplacePlaceholders(sql, paramIndex) ==
    IF sql = <<>> THEN <<>>
    ELSE IF Head(sql) = "?"
         THEN <<Dollar(paramIndex)>> \o ReplacePlaceholders(Tail(sql), paramIndex + 1)
         ELSE <<Head(sql)>> \o ReplacePlaceholders(Tail(sql), paramIndex)

\* PostgreSQLDriver._convertPlaceholders(sql): the text it returns and the cache after
ConvertPlaceholders(cache, sql) ==
    IF \E e \in cache : e.key = sql
    THEN [sql |-> (CHOOSE e \in cache : e.key = sql).sql, cache |-> cache]
    ELSE LET convertedSql == ReplacePlaceholders(sql, 1)
         IN  [sql |-> convertedSql,
              cache |-> IF Cardinality(cache) < MaxPreparedStatements
                        THEN cache \cup {[key |-> sql, sql |-> convertedSql]}
                        ELSE cache]

\* execute(sql, params) up to its await: PostgreSQLDriver converts the placeholders; the
\* transport call is started with the text and the params, and, in a driver with
\* queryTimeout, the timer is set
Execute(d, sql, params) ==
    LET conv == IF IsPostgres THEN ConvertPlaceholders(d.placeholderCache, sql)
                ELSE [sql |-> sql, cache |-> d.placeholderCache]
    IN  [d EXCEPT !.placeholderCache = conv.cache,
                  !.calls = Append(@, NewCall(sql, params, conv.sql))]

\* _updateMetrics(duration, isError)
UpdateMetrics(m, isError) ==
    [queriesExecuted |-> m.queriesExecuted + 1,
     errorsCount |-> m.errorsCount + (IF isError THEN 1 ELSE 0)]

\* a race every settling of which reaches the caller: C33 does not hold of it
RaceLastWins(call, event) ==
    [call EXCEPT !.pc = "settled", !.outcome = event, !.settles = @ + 1]

\* await Promise.race([queryPromise, timeoutPromise]) when one of the two promises
\* settles: the first settling ends the await, a later one is dropped
Race(call, event) ==
    IF call.pc = "racing"
    THEN [call EXCEPT !.pc = "settled", !.outcome = event, !.settles = @ + 1]
    ELSE call

\* the code of execute after the await: the try branch for a result, the catch branch
\* for a rejection; it runs once for each time the await ends
AfterAwait(d, i, before) ==
    LET call == d.calls[i]
        ran == call.settles - before.settles
    IN  IF ran = 0 \/ ~d.timed THEN d
        ELSE [d EXCEPT !.calls[i].measured = @ + ran,
                       !.metrics = UpdateMetrics(@, call.outcome # "result")]

\* no executeWithRetry call has been made
NoRetry ==
    [pc |-> "idle", retries |-> 0, attempt |-> 0, history |-> <<>>, thrown |-> <<>>]

\* the constructor's default of config.retryAttempts
DefaultRetryAttempts == 3

NewDatabase ==
    [connection |-> FALSE, handed |-> 0, retryAttempts |-> DefaultRetryAttempts,
     retry |-> NoRetry]

\* the largest maxRetries and config.retryAttempts followed
MaxRetries == 3

\* what operation() may throw. retryable: a value whose code is, or whose message
\* contains, one of the five codes; other: an Error with none of them; bare: a value with
\* no such code and no message (throw {code: 'E'}, throw 'text')
ErrorKinds == {"retryable", "other", "bare"}

\* Database._shouldRetry(error); for a bare value error.message.includes(code) throws
ShouldRetry(error) ==
    [throws |-> error.kind = "bare", value |-> error.kind = "retryable"]

\* the head of the for loop of executeWithRetry: operation() is called when
\* attempt <= retries, and lastError is thrown when the loop is over
LoopHead(r) ==
    IF r.attempt <= r.retries THEN [r EXCEPT !.pc = "operation"]
    ELSE [r EXCEPT !.pc = "threw",
                   !.thrown = IF r.history = <<>> THEN <<"undefined">>
                              ELSE <<r.history[Len(r.history)]>>]

\* executeWithRetry(operation, maxRetries) up to the first call of operation;
\* maxRetries 0 stands for 0, null and an omitted argument alike
ExecuteWithRetry(d, maxRetries) ==
    LET retries == IF maxRetries # 0 THEN maxRetries ELSE d.retryAttempts
    IN  LoopHead([pc |-> "idle", retries |-> retries, attempt |-> 1, history |-> <<>>,
                  thrown |-> <<>>])

\* the catch block of executeWithRetry for the error the operation has thrown
Caught(r, error) ==
    LET seen == [r EXCEPT !.history = Append(@, error)]
        again == ShouldRetry(error)
    IN  IF again.throws THEN [seen EXCEPT !.pc = "threw", !.thrown = <<"TypeError">>]
        ELSE IF again.value /\ r.attempt < r.retries THEN [seen EXCEPT !.pc = "sleep"]
        ELSE [seen EXCEPT !.pc = "threw", !.thrown = <<error>>]


\* a builder() that returns the one QueryBuilder connect() made: C23 does not hold of it
BuilderShared(d, b) ==
    [throws |-> ~d.connection,
     message |-> IF d.connection THEN <<>> ELSE <<"Conexão", "não", "estabelecida.">>,
     db |-> d, qb |-> b]

\* Database.builder() of a Database d whose caller holds the builder b
Builder(d, b) ==
    [throws |-> ~d.connection,
     message |-> IF d.connection THEN <<>>
                 ELSE <<"Conexão", "não", "estabelecida.", "Execute", "connect()", "primeiro.">>,
     db |-> IF d.connection THEN [d EXCEPT !.handed = @ + 1] ELSE d,
     qb |-> IF d.connection THEN NewBuilder ELSE b]

Init ==
    /\ driverType \in DriverTypes
    /\ qb = NewBuilder
    /\ sent = NoSent
    /\ lastCall = Called("new", "ok")
    /\ compiled = NoCompiled
    /\ txStack = <<>>
    /\ txLog = <<>>
    /\ driverTx = "none"
    /\ exc = "none"
    /\ chunk = NoChunk
    /\ twin = NoTwin
    /\ db = NewDatabase
    /\ drv = NewDriver(driverType # "mysql")

\* no chunk(size, callback) call is in progress
ChunkIdle == chunk.pc \notin {"get", "await", "callback"}

\* no transaction(callback) call is in progress
Idle == IF txStack = <<>> THEN TRUE ELSE Head(txStack).state # "open"

\* an error thrown by a call: inside a callback it propagates (the callbacks of this
\* model catch nothing), outside it has reached the caller
Raised(err) == IF Idle THEN "none" ELSE err

\* number of fragments the chain has accumulated
Size(b) ==
    Len(b.whereClauses) + Len(b.havingClauses) + Len(b.joinClauses)
    + Len(b.cteQueries) + Len(b.subqueries)

BindValues == {V1, NullV, A12}
Maps == {<<Entry("a", NullV)>>, <<Entry("a", V1), Entry("b", V2)>>}
Rows == {<<Entry("a", V1)>>, <<Entry("a", V1), Entry("b", NullV)>>}
\* the batches of insertBatch: up to MaxRows rows over the keys a, b in either order
BatchRows ==
    {<<Entry("a", V1)>>, <<Entry("a", V2), Entry("b", V1)>>,
     <<Entry("b", V2), Entry("a", V1)>>, <<Entry("a", A12), Entry("b", NullV)>>}
Batches == UNION {[1..n -> BatchRows] : n \in 0..MaxRows}

\* an accumulation method that adds n fragments: it throws (and changes nothing) or
\* leaves the builder nb
Accumulate(n, throws, nb) ==
    /\ exc = "none"
    /\ ChunkIdle
    /\ Size(qb) + n <= MaxFrags
    /\ throws \/ Len(nb.params) <= MaxParams
    /\ qb' = IF throws THEN qb ELSE nb
    /\ lastCall' = Called("accumulate", IF throws THEN "threw" ELSE "ok")
    /\ compiled' = NoCompiled
    /\ sent' = NoSent
    /\ exc' = IF throws THEN Raised("ValidationError") ELSE "none"
    /\ twin' = [twin EXCEPT !.b = Mirror(qb', @, twin.shares)]
    /\ UNCHANGED <<drv, db, driverType, txStack, txLog, driverTx, chunk>>

\* a terminal method: it throws before driver.execute, or hands its statement to
\* driver.execute, which succeeds or fails
TerminalWith(op, call, arg) ==
    /\ exc = "none"
    /\ ChunkIdle
    /\ compiled' = NoCompiled
    /\ \/ /\ call.throws
          /\ qb' = call.pre
          /\ lastCall' = CalledWith(op, "threw", arg)
          /\ sent' = NoSent
          /\ exc' = Raised("ValidationError")
          /\ twin' = [twin EXCEPT !.b = Mirror(call.pre, @, twin.shares)]
       \/ /\ ~call.throws
          /\ \E ok \in BOOLEAN :
                /\ sent' = ExecuteQuery(op, call, ok)
                /\ qb' = IF ok THEN call.post ELSE call.pre
                /\ lastCall' = CalledWith(op, IF ok THEN "ok" ELSE "failed", arg)
                /\ exc' = IF ok THEN "none" ELSE Raised("QueryError")
                \* reset() gives the builder new lists
                /\ twin' = [twin EXCEPT !.b = Mirror(call.pre, @, twin.shares),
                                        !.shares = IF ok THEN {} ELSE @]
    /\ UNCHANGED <<drv, db, driverType, txStack, txLog, driverTx, chunk>>

Terminal(op, call) == TerminalWith(op, call, <<>>)

-----------------------------------------------------------------------------
(* QueryBuilder: chunk(size, callback), one action per await *)

Min(a, b) == IF a < b THEN a ELSE b

\* the page number without the + 1: C13 does not hold of it
PageNumberFromZero(offset, size) == offset \div size

\* Math.floor(offset / size) + 1
PageNumber(offset, size) == (offset \div size) + 1

\* a loop that goes on after every callback: the amended C14 does not hold of it
ShouldStopNever(shouldContinue) == FALSE

\* shouldContinue === false
ShouldStop(shouldContinue) == shouldContinue = "false"

\* what a callback returns: true, false, undefined, null, 0
CallbackReturns == {"true", "false", "undefined", "null", "0"}
Falsy == {"false", "undefined", "null", "0"}

\* the rows a statement with LIMIT limit OFFSET offset returns of a result of n rows
PageOf(b, n) ==
    [from |-> b.offsetValue[1] + 1, to |-> Min(b.offsetValue[1] + b.limitValue[1], n)]
PageLen(page) == page.to - page.from + 1

\* _validateChunkSize
ValidateChunkSizeThrows(size) == size < 1 \/ size > 10000

\* chunk(size, callback) up to the first await
ChunkAct ==
    \E size \in 0..MaxChunk, n \in 0..MaxTable :
        /\ exc = "none"
        /\ ChunkIdle
        /\ chunk' = IF ValidateChunkSizeThrows(size)
                    THEN [NoChunk EXCEPT !.pc = "threw", !.size = size,
                                         !.before = Query(qb)]
                    ELSE [NoChunk EXCEPT !.pc = "get", !.size = size, !.rows = n,
                                         !.before = Query(qb)]
        /\ lastCall' = Called("chunk", IF ValidateChunkSizeThrows(size) THEN "threw"
                                                                        ELSE "started")
        /\ exc' = IF ValidateChunkSizeThrows(size) THEN Raised("ValidationError") ELSE "none"
        /\ sent' = NoSent
        /\ compiled' = NoCompiled
        /\ UNCHANGED <<drv, db, driverType, qb, txStack, txLog, driverTx, twin>>

\* a chunk() that pages the builder it was called on: C30 does not hold of it
ChunkPageOnThis(b, size, offset) ==
    [builderClone |-> LimitOffset(b, size, offset), this |-> LimitOffset(b, size, offset)]

\* builderClone = this.clone(); builderClone.limit(size, offset): the clone, and the
\* builder chunk() was called on
ChunkPage(b, size, offset) ==
    [builderClone |-> LimitOffset(Clone(b), size, offset), this |-> b]

\* a chunk() that does not await builderClone.get(): C29 does not hold of it
ChunkRequestedNotAwaited(c) ==
    [c EXCEPT !.gets = @ + 1, !.inflight = @ + 1, !.offsets = Append(@, c.offset),
              !.offset = @ + c.size]

\* the locals of chunk() once builderClone.get() has handed its statement to the driver
ChunkRequested(c) ==
    [c EXCEPT !.pc = "await", !.gets = @ + 1, !.inflight = @ + 1,
              !.offsets = Append(@, c.offset)]

\* builderClone = this.clone(); builderClone.limit(size, offset); builderClone.get()
\* up to its await of driver.execute
ChunkRequestAct ==
    /\ chunk.pc = "get"
    /\ chunk' = ChunkRequested(chunk)
    /\ qb' = ChunkPage(qb, chunk.size, chunk.offset).this
    /\ lastCall' = Called("chunk", "requested")
    /\ sent' = NoSent
    /\ compiled' = NoCompiled
    /\ UNCHANGED <<drv, db, driverType, txStack, txLog, driverTx, exc, twin>>

\* chunk = await builderClone.get(), from the answer of the driver on;
\* if (chunk.length === 0) break
ChunkGet(ok) ==
    /\ chunk.pc = "await"
    /\ LET builderClone == ChunkPage(qb, chunk.size, chunk.offset).builderClone
           call == Get(builderClone)
           page == PageOf(builderClone, chunk.rows)
       IN       /\ sent' = ExecuteQuery("chunk", call, ok)
                /\ chunk' = IF ~ok THEN [chunk EXCEPT !.pc = "threw", !.inflight = @ - 1]
                            ELSE IF PageLen(page) = 0
                            THEN [chunk EXCEPT !.pc = "done", !.inflight = @ - 1,
                                               !.page = NoPage,
                                               !.result = chunk.processedRows]
                            ELSE [chunk EXCEPT !.pc = "callback", !.inflight = @ - 1,
                                               !.page = page]
                /\ lastCall' = Called("chunk", IF ~ok THEN "failed"
                                               ELSE IF PageLen(page) = 0 THEN "ok"
                                               ELSE "paged")
                /\ exc' = IF ok THEN "none" ELSE Raised("QueryError")
    /\ compiled' = NoCompiled
    /\ UNCHANGED <<drv, db, driverType, qb, txStack, txLog, driverTx, twin>>

\* the driver answers the page request with rows, or rejects it
ChunkGetAct == \E ok \in BOOLEAN : ChunkGet(ok)

\* the driver answers the page request with rows
ChunkAnswerAct == ChunkGet(TRUE)

\* a loop that asks for the same page again: C39 does not hold of it
NextOffsetSame(offset, size) == offset

\* offset += size
NextOffset(offset, size) == offset + size

\* shouldContinue = await callback(chunk, page); processedRows += chunk.length;
\* the two breaks; offset += size
ChunkCallback(returns) ==
    /\ chunk.pc = "callback"
    /\ \E shouldContinue \in returns :
          LET processedRows == chunk.processedRows + PageLen(chunk.page)
              stop == ShouldStop(shouldContinue) \/ PageLen(chunk.page) < chunk.size
              invoked == [page |-> PageNumber(chunk.offset, chunk.size),
                          from |-> chunk.page.from, to |-> chunk.page.to,
                          returned |-> shouldContinue]
          IN /\ chunk' = [chunk EXCEPT !.pc = IF stop THEN "done" ELSE "get",
                                       !.processedRows = processedRows,
                                       !.calls = Append(@, invoked),
                                       !.offset = IF stop THEN @
                                                  ELSE NextOffset(@, chunk.size),
                                       !.result = IF stop THEN processedRows ELSE @]
             /\ lastCall' = Called("chunk", IF stop THEN "ok" ELSE "called")
    /\ sent' = NoSent
    /\ compiled' = NoCompiled
    /\ UNCHANGED <<drv, db, driverType, qb, txStack, txLog, driverTx, exc, twin>>

ChunkCallbackAct == ChunkCallback(CallbackReturns)

\* the callback returns nothing, or false
ChunkCallbackReturnsAct == ChunkCallback({"undefined", "false"})

\* the callback throws: chunk() rejects with its error
ChunkCallbackThrowAct ==
    /\ chunk.pc = "callback"
    /\ chunk' = [chunk EXCEPT !.pc = "threw",
                              !.calls = Append(@, [page |-> PageNumber(chunk.offset, chunk.size),
                                                   from |-> chunk.page.from,
                                                   to |-> chunk.page.to,
                                                   returned |-> "threw"])]
    /\ lastCall' = Called("chunk", "threw")
    /\ exc' = Raised("CallbackError")
    /\ sent' = NoSent
    /\ compiled' = NoCompiled
    /\ UNCHANGED <<drv, db, driverType, qb, txStack, txLog, driverTx, twin>>

-----------------------------------------------------------------------------
(* clone(), and calls on the builder it returned *)

CloneAct ==
    /\ exc = "none"
    /\ ChunkIdle
    /\ twin' = [made |-> TRUE, b |-> Clone(qb), shares |-> CloneAliases,
                inTransaction |-> FALSE, began |-> "never",
                alone |-> NoTwin.alone, ran |-> {}]
    /\ lastCall' = Called("clone", "ok")
    /\ sent' = NoSent
    /\ compiled' = NoCompiled
    /\ UNCHANGED <<drv, db, driverType, qb, txStack, txLog, driverTx, exc, chunk>>

\* Accumulate, on the clone
TwinAccumulate(n, throws, nb) ==
    /\ exc = "none"
    /\ ChunkIdle
    /\ twin.made
    /\ Size(twin.b) + n <= MaxFrags
    /\ throws \/ Len(nb.params) <= MaxParams
    /\ twin' = [twin EXCEPT !.b = IF throws THEN @ ELSE nb]
    /\ qb' = Mirror(twin'.b, qb, twin.shares)
    /\ lastCall' = Called("clone.accumulate", IF throws THEN "threw" ELSE "ok")
    /\ compiled' = NoCompiled
    /\ sent' = NoSent
    /\ exc' = IF throws THEN Raised("ValidationError") ELSE "none"
    /\ UNCHANGED <<drv, db, driverType, txStack, txLog, driverTx, chunk>>

\* Terminal, on the clone
TwinTerminal(op, call) ==
    /\ exc = "none"
    /\ ChunkIdle
    /\ twin.made
    /\ compiled' = NoCompiled
    /\ qb' = Mirror(call.pre, qb, twin.shares)
    /\ \/ /\ call.throws
          /\ twin' = [twin EXCEPT !.b = call.pre]
          /\ lastCall' = Called("clone." \o op, "threw")
          /\ sent' = NoSent
          /\ exc' = Raised("ValidationError")
       \/ /\ ~call.throws
          /\ \E ok \in BOOLEAN :
                /\ sent' = ExecuteQuery(op, call, ok)
                /\ twin' = [twin EXCEPT !.b = IF ok THEN call.post ELSE call.pre,
                                        !.shares = IF ok THEN {} ELSE @]
                /\ lastCall' = Called("clone." \o op, IF ok THEN "ok" ELSE "failed")
                /\ exc' = IF ok THEN "none" ELSE Raised("QueryError")
    /\ UNCHANGED <<drv, db, driverType, txStack, txLog, driverTx, chunk>>

TwinWhereAct ==
    TwinAccumulate(1, ValidateWhereCountThrows(twin.b), WhereValue(twin.b, "b", V2, "="))
TwinSetAct == TwinAccumulate(0, FALSE, Set(twin.b, "b", V1))
TwinDeleteAct == \E t \in {"", "t"} : TwinTerminal("delete", Delete(twin.b, t, <<>>))

-----------------------------------------------------------------------------
(* Actions: accumulation *)

SelectAct == \E f \in {"*", "x"} : Accumulate(0, FALSE, Select(qb, f))
FromAct == Accumulate(0, FALSE, From(qb, "t"))
LimitAct == Accumulate(0, FALSE, Limit(qb, 5))
SetAct == Accumulate(0, FALSE, Set(qb, "a", V2))
LimitOffsetAct ==
    \E count \in 0..MaxLimit, offset \in 0..MaxLimit :
        Accumulate(0, FALSE, LimitOffset(qb, count, offset))

WhereOf(values) ==
    \E v \in values :
        Accumulate(1, ValidateWhereCountThrows(qb), WhereValue(qb, "a", v, "="))
WhereAct == WhereOf(BindValues)
WherePlainAct == WhereOf({V1})
WhereMapAct ==
    \E m \in Maps : Accumulate(Len(m), ValidateWhereCountThrows(qb), WhereMap(qb, m))
WhereGroupAct ==
    \E g \in GroupScripts :
        Accumulate(1, ValidateWhereCountThrows(qb), AddWhereGroup(qb, g))
OrWhereOf(values) ==
    \E v \in values :
        Accumulate(1, Len(qb.whereClauses) = 0 /\ ValidateWhereCountThrows(qb),
                   OrWhereValue(qb, "b", v, "="))
OrWhereAct == OrWhereOf({V2, NullV})
OrWherePlainAct == OrWhereOf({V2})
OrWhereMapAct ==
    \E m \in Maps :
        Accumulate(IF Len(qb.whereClauses) = 0 THEN Len(m) ELSE 1,
                   Len(qb.whereClauses) = 0 /\ ValidateWhereCountThrows(qb),
                   OrWhereMap(qb, m))
\* where(callback) and orWhere(callback), the builder they were called on and the
\* callback being kept in lastCall
WhereCallbackAct ==
    \E op \in {"where", "orWhere"}, g \in GroupScripts \cup {"busy"} :
        LET validates == op = "where" \/ Len(qb.whereClauses) = 0
            throws == validates /\ ValidateWhereCountThrows(qb)
            nb == IF op = "where" THEN AddWhereGroup(qb, g) ELSE OrWhereGroup(qb, g)
        IN /\ exc = "none"
           /\ ChunkIdle
           /\ Size(qb) + 1 <= MaxFrags
           /\ throws \/ Len(nb.params) <= MaxParams
           /\ qb' = IF throws THEN qb ELSE nb
           /\ lastCall' = CalledWith(op, IF throws THEN "threw" ELSE "ok",
                                     [pre |-> qb, callback |-> g])
           /\ compiled' = NoCompiled
           /\ sent' = NoSent
           /\ exc' = IF throws THEN Raised("ValidationError") ELSE "none"
           /\ twin' = [twin EXCEPT !.b = Mirror(qb', @, twin.shares)]
           /\ UNCHANGED <<drv, db, driverType, txStack, txLog, driverTx, chunk>>

OrWhereGroupAct ==
    \E g \in GroupScripts :
        Accumulate(1, Len(qb.whereClauses) = 0 /\ ValidateWhereCountThrows(qb),
                   OrWhereGroup(qb, g))
WhereInAct ==
    \E vs \in {<<>>, <<V1, V2>>} :
        Accumulate(1, WhereInThrows(qb, vs), WhereIn(qb, "a", vs))
WhereBetweenAct ==
    \E lo \in {V1, NullV} :
        Accumulate(1, ValidateWhereCountThrows(qb), WhereBetween(qb, "a", lo, V2))
WhereLikeAct ==
    \E v \in {V1, NullV} :
        Accumulate(1, ValidateWhereCountThrows(qb), WhereLike(qb, "a", v))
OrWhereLikeAct ==
    Accumulate(1, Len(qb.whereClauses) = 0 /\ ValidateWhereCountThrows(qb),
               OrWhereLike(qb, "b", V2))
WhereRawAct ==
    \E r \in {[e |-> <<"x", "IS", "NULL">>, bs |-> <<>>],
              [e |-> <<"x", ">", "?">>, bs |-> <<V1>>]} :
        Accumulate(1, ValidateWhereCountThrows(qb), WhereRaw(qb, r.e, r.bs))

WhereSubqueryAct ==
    \E s \in SubScripts :
        Accumulate(1, ValidateWhereCountThrows(qb), WhereSubquery(qb, "a", "IN", s))
WhereExistsAct ==
    \E s \in SubScripts, neg \in BOOLEAN :
        Accumulate(1, ValidateWhereCountThrows(qb), WhereExists(qb, neg, s))
JoinAct == Accumulate(1, ValidateJoinCountThrows(qb), Join(qb, "u", "u.id = t.id", "LEFT"))
GroupByAct == Accumulate(0, ValidateGroupByCountThrows(qb), GroupBy(qb, "a"))
GroupByListAct ==
    Accumulate(0, ValidateGroupByCountThrows(qb), GroupByList(qb, <<"a", "b">>))
OrderByAct ==
    \E direction \in {"ASC", "DESC"} :
        Accumulate(0, ValidateOrderByCountThrows(qb), OrderBy(qb, "a", direction))
SelectListAct ==
    \E fields \in {<<"a">>, <<"a", "b">>} :
        Accumulate(0, ValidateSelectFieldsThrows(qb, fields), SelectList(qb, fields))
JoinSubqueryAct ==
    \E s \in SubScripts :
        Accumulate(1, ValidateJoinCountThrows(qb),
                   JoinSubquery(qb, s, "j", "j.id = t.id", "INNER"))
FromSubqueryAct ==
    \E s \in SubScripts : Accumulate(1, FALSE, FromSubquery(qb, s, "f"))

WithAct ==
    \E name \in {"c1", "c2"}, c \in CallbackBuilders :
        Accumulate(1, WithThrows(name), With(qb, name, c))
WithRecursiveAct ==
    \E c \in CallbackBuilders :
        Accumulate(1, WithThrows("r"), WithRecursive(qb, "r", c))

UnionAct ==
    \E c \in CallbackBuilders, all \in BOOLEAN : Accumulate(1, FALSE, Union(qb, c, all))

HavingAct == \E v \in {V1, NullV} : Accumulate(1, FALSE, HavingValue(qb, "a", v, "="))
HavingMapAct == \E m \in Maps : Accumulate(Len(m), FALSE, HavingMap(qb, m))
OrHavingAct == Accumulate(1, FALSE, OrHavingValue(qb, "b", V2, "="))
OrHavingMapAct ==
    \E m \in Maps :
        Accumulate(IF Len(qb.havingClauses) = 0 THEN Len(m) ELSE 1, FALSE, OrHavingMap(qb, m))
HavingRawAct == Accumulate(1, FALSE, HavingRaw(qb, <<"COUNT(*)", ">", "?">>, <<V1>>))

-----------------------------------------------------------------------------
(* Actions: compilation and the terminal methods *)

\* getCompiledSelect(): buildSelectQuery() without execution
GetCompiledSelectAct ==
    /\ exc = "none"
    /\ compiled' = [calls |-> IF compiled.calls < MaxCompiles THEN compiled.calls + 1
                               ELSE MaxCompiles,
                     first |-> IF compiled.calls = 0 THEN BuildSelectQuery(qb)
                               ELSE compiled.first,
                     last |-> BuildSelectQuery(qb),
                     state |-> IF compiled.calls = 0 THEN Query(qb) ELSE compiled.state]
    /\ qb' = AfterBuild(qb)
    /\ lastCall' = Called("getCompiledSelect", "ok")
    /\ sent' = NoSent
    /\ UNCHANGED <<drv, db, driverType, txStack, txLog, driverTx, exc, chunk, twin>>

GetAct == Terminal("get", Get(qb))
FirstAct == Terminal("first", First(qb))
CountAct == Terminal("count", Count(qb, "*"))
\* count(field), the builder it was called on being kept in lastCall
CountOfAct ==
    \E field \in {"*", "a"} :
        TerminalWith("count", Count(qb, field), [field |-> field, pre |-> Query(qb)])
ExistsAct == Terminal("exists", Exists(qb))
QueryAct ==
    \E q \in {[sql |-> <<>>, params |-> <<>>],
               [sql |-> <<"SELECT", "1">>, params |-> <<>>],
               [sql |-> <<"SELECT", "?">>, params |-> <<V1>>]} :
        Terminal("query", QueryRaw(qb, q.sql, q.params))
InsertAct == \E d \in Rows : Terminal("insert", Insert(qb, "t", d))
InsertBatchOf(batches) ==
    \E op \in {"insert", "insertBatch"}, d \in batches :
        TerminalWith(op, InsertBatch(qb, "t", d), d)
InsertBatchAct == InsertBatchOf(Batches)
\* one batch that is sent and one that is refused
InsertRowsAct ==
    InsertBatchOf({<<<<Entry("a", V1)>>, <<Entry("a", V2)>>>>,
                   <<<<Entry("a", V1)>>, <<Entry("b", V2)>>>>})
InsertOrUpdateAct ==
    \E d \in Rows, cc \in {<<>>, <<"a">>} :
        Terminal("insertOrUpdate", InsertOrUpdate(qb, "t", d, cc))
\* insertOrUpdate with one or two data fields in either order and with no conflict
\* columns (<<>>), one of them, or both
UpsertRows == Rows \cup {<<Entry("b", V2), Entry("a", V1)>>}
InsertOrUpdateOfAct ==
    \E d \in UpsertRows, cc \in {<<>>, <<"a">>, <<"b">>, <<"a", "b">>} :
        TerminalWith("insertOrUpdate", InsertOrUpdate(qb, "t", d, cc),
                     [data |-> d, conflictColumns |-> cc])
UpdateOf(wheres) ==
    \E d \in {<<>>, <<Entry("c", V2)>>}, w \in wheres :
        /\ Size(qb) + Len(w) <= MaxFrags
        /\ Terminal("update", Update(qb, "t", d, w))
UpdateAct == UpdateOf({<<>>})
UpdateWhereAct == UpdateOf({<<>>, <<Entry("b", V1)>>})
IncrementAct == Terminal("increment", Increment(qb, "t", "n", V1, <<>>))
DeleteOf(wheres) ==
    \E t \in {"", "t"}, w \in wheres :
        /\ Size(qb) + Len(w) <= MaxFrags
        /\ Terminal("delete", Delete(qb, t, w))
DeleteAct == DeleteOf({<<>>})
DeleteWhereAct == DeleteOf({<<>>, <<Entry("b", V1)>>})

\* reset() called by hand
ResetAct ==
    /\ exc = "none"
    /\ ChunkIdle
    /\ qb' = Reset(qb)
    /\ lastCall' = Called("reset", "ok")
    /\ compiled' = NoCompiled
    /\ sent' = NoSent
    /\ twin' = [twin EXCEPT !.shares = {}]
    /\ UNCHANGED <<drv, db, driverType, txStack, txLog, driverTx, exc, chunk>>

-----------------------------------------------------------------------------
(* Actions: transactions *)

\* A transaction(callback) call in progress (history):
\*   nested:  isNestedTransaction of the call
\*   state:   "open" while its callback runs, then "returned" or "threw"
\*   deepest: the deepest nesting reached under it (0: its callback never started)
\*   thrown:  the error its callback threw ("none" if it returned)
\*   error:   the error the call itself threw ("none" if it returned)
TxFrame(nested, state, deepest, thrown, error) ==
    [nested |-> nested, state |-> state, deepest |-> deepest, thrown |-> thrown,
     error |-> error]

OpenDepth == IF Idle THEN 0 ELSE Len(txStack)

Deepen(stack) ==
    [stack EXCEPT ![1].deepest = IF @ < Len(stack) THEN Len(stack) ELSE @]

\* transaction(callback) is called, at top level or inside a callback, and runs until
\* its callback starts
TxnEnterAct ==
    /\ exc = "none"
    /\ OpenDepth < MaxDepth
    /\ \E ok \in BOOLEAN :
        LET e == TransactionEnter(qb, ok)
            open == IF Idle THEN <<>> ELSE txStack
            frame == TxFrame(e.nested, IF e.err = "none" THEN "open" ELSE "threw",
                             IF e.err = "none" THEN 1 ELSE 0, "none", e.err)
        IN /\ qb' = e.b
           /\ txLog' = (IF Idle THEN <<>> ELSE txLog) \o e.sent
           /\ driverTx' = DriverTxAfter(driverTx, e.sent)
           /\ txStack' = IF e.err = "none" THEN Deepen(Append(open, frame))
                         ELSE IF Idle THEN <<frame>> ELSE txStack
           /\ exc' = Raised(e.err)
           /\ lastCall' = Called("transaction", IF e.err = "none" THEN "entered" ELSE e.err)
    /\ compiled' = NoCompiled
    /\ sent' = NoSent
    /\ UNCHANGED <<drv, db, driverType, chunk, twin>>

\* the innermost transaction(callback) in progress ends with outcome r, its callback
\* having thrown the error thrown ("none" if it returned)
TxnLeave(r, thrown) ==
    LET top == txStack[Len(txStack)]
    IN /\ qb' = r.b
       /\ txLog' = txLog \o r.sent
       /\ driverTx' = DriverTxAfter(driverTx, r.sent)
       /\ txStack' = IF Len(txStack) = 1
                     THEN <<[top EXCEPT !.state = IF r.err = "none" THEN "returned"
                                                  ELSE "threw",
                                        !.thrown = thrown,
                                        !.error = r.err]>>
                     ELSE SubSeq(txStack, 1, Len(txStack) - 1)
       /\ exc' = IF Len(txStack) = 1 THEN "none" ELSE r.err
       /\ lastCall' = Called("transaction", IF r.err = "none" THEN "ok" ELSE r.err)
       /\ compiled' = NoCompiled
       /\ sent' = NoSent
       /\ UNCHANGED <<drv, db, driverType, chunk, twin>>

\* the callback of the innermost call returns
TxnReturnAct ==
    /\ ~Idle
    /\ exc = "none"
    /\ \E commitOk \in BOOLEAN, rollbackOk \in BOOLEAN :
        TxnLeave(TransactionReturn(qb, txStack[Len(txStack)].nested, commitOk, rollbackOk),
                 "none")

\* an error reaches the catch block of the innermost call
TxnThrowAct ==
    /\ ~Idle
    /\ exc # "none"
    /\ \E rollbackOk \in BOOLEAN :
        TxnLeave(TransactionCatch(qb, txStack[Len(txStack)].nested, exc, rollbackOk), exc)

\* the code of a callback throws an error of its own
CallbackThrowAct ==
    /\ ~Idle
    /\ exc = "none"
    /\ exc' = "CallbackError"
    /\ lastCall' = Called("callback", "threw")
    /\ UNCHANGED <<drv, db, driverType, qb, sent, compiled, txStack, txLog, driverTx, chunk, twin>>

\* beginTransaction() / commitTransaction() / rollbackTransaction() called by hand
ManualTxn(op, r) ==
    /\ exc = "none"
    /\ qb' = r.b
    /\ txLog' = (IF Idle THEN <<>> ELSE txLog) \o r.sent
    /\ driverTx' = DriverTxAfter(driverTx, r.sent)
    /\ txStack' = IF Idle THEN <<>> ELSE txStack
    /\ exc' = Raised(r.err)
    /\ lastCall' = Called(op, IF r.err = "none" THEN "ok" ELSE r.err)
    /\ compiled' = NoCompiled
    /\ sent' = NoSent
    /\ UNCHANGED <<drv, db, driverType, chunk, twin>>

\* beginTransaction(), at top level or inside a callback
BeginTransactionAct ==
    \E ok \in BOOLEAN : ManualTxn("beginTransaction", BeginTransaction(qb, ok))

\* commitTransaction() and rollbackTransaction(), at top level (the callbacks of this
\* model end their transaction through transaction() alone)
CommitTransactionAct ==
    /\ Idle
    /\ \E ok \in BOOLEAN : ManualTxn("commitTransaction", CommitTransaction(qb, ok))
RollbackTransactionAct ==
    /\ Idle
    /\ \E ok \in BOOLEAN : ManualTxn("rollbackTransaction", RollbackTransaction(qb, ok))

-----------------------------------------------------------------------------
(* Specifications *)

\* chains of select/from/where ended by the terminal methods that read
Next ==
    \/ SelectAct \/ FromAct \/ WherePlainAct
    \/ GetAct \/ FirstAct \/ CountAct \/ ExistsAct

Spec == Init /\ [][Next]_vars

\* chains of from/set/where ended by the terminal methods that write
NextWrite ==
    \/ FromAct \/ SetAct \/ WherePlainAct
    \/ InsertAct \/ InsertBatchAct \/ InsertOrUpdateAct \/ UpdateAct \/ IncrementAct
    \/ DeleteAct

SpecWrite == Init /\ [][NextWrite]_vars

\* every terminal method but chunk(), with and without from() and set()
NextTerminal ==
    \/ FromAct \/ SetAct
    \/ GetAct \/ FirstAct \/ CountAct \/ ExistsAct
    \/ InsertAct \/ InsertRowsAct \/ InsertOrUpdateAct \/ UpdateAct \/ IncrementAct
    \/ DeleteAct

SpecTerminal == Init /\ [][NextTerminal]_vars

\* an instance whose ceilings are MaxCeil, and the accumulation methods they guard
InitCeil ==
    /\ driverType \in DriverTypes
    /\ qb = [NewBuilder EXCEPT !.validation = LowValidation]
    /\ sent = NoSent
    /\ lastCall = Called("new", "ok")
    /\ compiled = NoCompiled
    /\ txStack = <<>>
    /\ txLog = <<>>
    /\ driverTx = "none"
    /\ exc = "none"
    /\ chunk = NoChunk
    /\ twin = NoTwin
    /\ db = NewDatabase
    /\ drv = NewDriver(driverType # "mysql")

NextCeil ==
    \/ SelectAct \/ SelectListAct \/ WhereAct \/ WhereMapAct \/ WhereGroupAct
    \/ OrWhereAct \/ OrWhereMapAct \/ WhereInAct \/ JoinAct
    \/ GroupByAct \/ GroupByListAct \/ OrderByAct

SpecCeil == InitCeil /\ [][NextCeil]_vars

\* count() after chains of select/from/where
NextCount ==
    \/ SelectAct \/ FromAct \/ WherePlainAct \/ CountOfAct

SpecCount == Init /\ [][NextCount]_vars

\* the methods that execute a statement, and getLastQuery() = qb.lastQuery
NextLast ==
    \/ FromAct \/ SetAct \/ GetAct \/ FirstAct \/ InsertAct \/ UpdateAct \/ DeleteAct
    \/ QueryAct

SpecLast == Init /\ [][NextLast]_vars

\* clone(), with calls on the original and on the clone before and after it
\* the most statements followed in the driver's log when a clone begins a transaction
MaxTxLog == 3

\* beginTransaction() on the clone, which has the connection of qb
TwinBeginTransactionAct ==
    /\ exc = "none"
    /\ ChunkIdle
    /\ twin.made
    /\ Len(txLog) < MaxTxLog
    /\ \E ok \in BOOLEAN :
        LET r == BeginTransaction([inTransaction |-> twin.inTransaction], ok)
        IN  /\ twin' = [twin EXCEPT !.inTransaction = r.b.inTransaction,
                                    !.began = IF r.sent = <<>> THEN @ ELSE driverTx]
            /\ txLog' = (IF Idle THEN <<>> ELSE txLog) \o r.sent
            /\ driverTx' = DriverTxAfter(driverTx, r.sent)
            /\ exc' = Raised(r.err)
            /\ lastCall' = Called("clone.beginTransaction",
                                  IF r.err = "none" THEN "ok" ELSE r.err)
    /\ compiled' = NoCompiled
    /\ sent' = NoSent
    /\ UNCHANGED <<drv, db, driverType, qb, txStack, chunk>>

NextTwinTxn ==
    \/ TxnEnterAct \/ TxnReturnAct \/ TxnThrowAct
    \/ BeginTransactionAct \/ CommitTransactionAct \/ RollbackTransactionAct
    \/ CloneAct \/ TwinBeginTransactionAct

SpecTwinTxn == Init /\ [][NextTwinTxn]_vars

NextClone ==
    \/ FromAct \/ WherePlainAct \/ SetAct \/ DeleteAct
    \/ CloneAct \/ TwinWhereAct \/ TwinSetAct \/ TwinDeleteAct

SpecClone == Init /\ [][NextClone]_vars

\* every driver createDriver knows, and the compilation of limit and offset
InitLimit ==
    /\ driverType \in {"mysql", "mariadb", "postgres", "postgresql"}
    /\ qb = NewBuilder
    /\ sent = NoSent
    /\ lastCall = Called("new", "ok")
    /\ compiled = NoCompiled
    /\ txStack = <<>>
    /\ txLog = <<>>
    /\ driverTx = "none"
    /\ exc = "none"
    /\ chunk = NoChunk
    /\ twin = NoTwin
    /\ db = NewDatabase
    /\ drv = NewDriver(driverType # "mysql")

NextLimit == LimitAct \/ LimitOffsetAct \/ GetCompiledSelectAct

SpecLimit == InitLimit /\ [][NextLimit]_vars

\* Database.connect(): connectionManager.connect() resolves or rejects
ConnectAct ==
    /\ exc = "none" /\ ChunkIdle
    /\ \E ok \in BOOLEAN :
          /\ db' = [db EXCEPT !.connection = @ \/ ok]
          /\ lastCall' = Called("connect", IF db.connection \/ ok THEN "ok" ELSE "failed")
    /\ compiled' = NoCompiled
    /\ sent' = NoSent
    /\ UNCHANGED <<drv, driverType, qb, txStack, txLog, driverTx, exc, chunk, twin>>

\* Database.disconnect()
DisconnectAct ==
    /\ exc = "none" /\ ChunkIdle
    /\ db' = [db EXCEPT !.connection = FALSE]
    /\ lastCall' = Called("disconnect", "ok")
    /\ compiled' = NoCompiled
    /\ sent' = NoSent
    /\ UNCHANGED <<drv, driverType, qb, txStack, txLog, driverTx, exc, chunk, twin>>

\* Database.builder(); the caller goes on with the builder it returns, or keeps the
\* one it had when builder() throws
BuilderAct ==
    /\ exc = "none" /\ ChunkIdle
    /\ db.handed < MaxBuilders
    /\ LET r == Builder(db, qb)
       IN /\ db' = r.db
          /\ qb' = r.qb
          /\ lastCall' = CalledWith("builder", IF r.throws THEN "threw" ELSE "ok",
                                    [connection |-> db.connection, handed |-> db.handed,
                                     message |-> r.message])
    /\ compiled' = NoCompiled
    /\ sent' = NoSent
    /\ UNCHANGED <<drv, driverType, txStack, txLog, driverTx, exc, chunk, twin>>

NextDatabase == ConnectAct \/ DisconnectAct \/ BuilderAct \/ FromAct \/ WherePlainAct

SpecDatabase == Init /\ [][NextDatabase]_vars

\* SELECTs with common table expressions, on every driver type
NextCte == WherePlainAct \/ WithAct \/ WithRecursiveAct

SpecCte == InitLimit /\ [][NextCte]_vars

\* SELECTs with where, having and union, called in any order
NextUnion == WherePlainAct \/ OrHavingAct \/ UnionAct

SpecUnion == Init /\ [][NextUnion]_vars

\* reset() and terminal methods at top level and inside transaction(callback)
NextReset ==
    \/ TxnEnterAct \/ TxnReturnAct \/ TxnThrowAct
    \/ FromAct \/ SetAct \/ ResetAct
    \/ GetAct \/ InsertAct \/ UpdateAct \/ DeleteAct

SpecReset == Init /\ [][NextReset]_vars

\* where(callback) and orWhere(callback) on builders with a table, a limit and
\* where fragments
NextGroup == FromAct \/ LimitAct \/ WherePlainAct \/ WhereCallbackAct

SpecGroup == Init /\ [][NextGroup]_vars

\* execute('... ?', [1]) up to its await. errorDepth is 0 here: the error handlers raise
\* it and lower it again in their finally before they return
DriverExecuteAct ==
    /\ Len(drv.calls) < MaxCalls
    /\ drv' = Execute(drv, <<"?">>, <<V1>>)
    /\ UNCHANGED <<db, driverType, qb, sent, lastCall, compiled, txStack, txLog, driverTx,
                   exc, chunk, twin>>

\* the transport call of an execute call resolves or rejects
TransportSettlesAct ==
    \E i \in 1..Len(drv.calls), ok \in BOOLEAN :
        LET call == drv.calls[i]
            seen == [call EXCEPT !.transport = IF ok THEN "resolved" ELSE "rejected",
                                 !.first = IF @ = "none" THEN "transport" ELSE @]
            raced == Race(seen, IF ok THEN "result" ELSE "error")
        IN  /\ call.transport = "pending"
            /\ drv' = AfterAwait([drv EXCEPT !.calls[i] = raced], i, call)
            /\ UNCHANGED <<db, driverType, qb, sent, lastCall, compiled, txStack, txLog,
                           driverTx, exc, chunk, twin>>

\* queryTimeout ms have passed since an execute call started: in a driver with
\* queryTimeout the timer rejects timeoutPromise (it is never cleared)
QueryTimeoutElapsesAct ==
    \E i \in 1..Len(drv.calls) :
        LET call == drv.calls[i]
            seen == [call EXCEPT !.elapsed = TRUE,
                                 !.first = IF @ = "none" THEN "timeout" ELSE @]
            raced == IF drv.timed THEN Race(seen, "timeout") ELSE seen
        IN  /\ ~call.elapsed
            /\ drv' = AfterAwait([drv EXCEPT !.calls[i] = raced], i, call)
            /\ UNCHANGED <<db, driverType, qb, sent, lastCall, compiled, txStack, txLog,
                           driverTx, exc, chunk, twin>>

\* either MySQLDriver for "mysql", the one driver of the type otherwise
InitDriver ==
    /\ driverType \in {"mysql", "mariadb", "postgres", "postgresql"}
    /\ qb = NewBuilder
    /\ sent = NoSent
    /\ lastCall = Called("new", "ok")
    /\ compiled = NoCompiled
    /\ txStack = <<>>
    /\ txLog = <<>>
    /\ driverTx = "none"
    /\ exc = "none"
    /\ chunk = NoChunk
    /\ twin = NoTwin
    /\ db = NewDatabase
    /\ drv \in {NewDriver(t) : t \in IF driverType = "mysql" THEN BOOLEAN ELSE {TRUE}}

\* execute(sql, params) of any text and params, up to its await
ExecuteAnyAct ==
    \E sql \in SqlTexts, params \in {<<>>, <<V1, V2>>} :
        /\ Len(drv.calls) < MaxCalls
        /\ drv' = Execute(drv, sql, params)
        /\ UNCHANGED <<db, driverType, qb, sent, lastCall, compiled, txStack, txLog,
                       driverTx, exc, chunk, twin>>

NextPlaceholders == ExecuteAnyAct

SpecPlaceholders == InitDriver /\ [][NextPlaceholders]_vars

NextDriver == DriverExecuteAct \/ TransportSettlesAct \/ QueryTimeoutElapsesAct

SpecDriver == InitDriver /\ [][NextDriver]_vars

\* executeWithRetry(operation, maxRetries) is called
ExecuteWithRetryAct ==
    \E maxRetries \in 0..MaxRetries :
        /\ db.retry.pc \in {"idle", "returned", "threw"}
        /\ db' = [db EXCEPT !.retry = ExecuteWithRetry(db, maxRetries)]
        /\ UNCHANGED <<drv, driverType, qb, sent, lastCall, compiled, txStack, txLog,
                       driverTx, exc, chunk, twin>>

\* operation() returns and executeWithRetry returns its result
OperationReturnsAct ==
    /\ db.retry.pc = "operation"
    /\ db' = [db EXCEPT !.retry.pc = "returned",
                        !.retry.history = Append(@, [kind |-> "ok", at |-> db.retry.attempt])]
    /\ UNCHANGED <<drv, driverType, qb, sent, lastCall, compiled, txStack, txLog,
                   driverTx, exc, chunk, twin>>

\* operation() throws
OperationThrowsAct ==
    \E kind \in ErrorKinds :
        /\ db.retry.pc = "operation"
        /\ db' = [db EXCEPT !.retry = Caught(@, [kind |-> kind, at |-> db.retry.attempt])]
        /\ UNCHANGED <<drv, driverType, qb, sent, lastCall, compiled, txStack, txLog,
                       driverTx, exc, chunk, twin>>

\* the delay is over: continue with the next attempt
SleepDoneAct ==
    /\ db.retry.pc = "sleep"
    /\ db' = [db EXCEPT !.retry = LoopHead([@ EXCEPT !.attempt = @ + 1])]
    /\ UNCHANGED <<drv, driverType, qb, sent, lastCall, compiled, txStack, txLog,
                   driverTx, exc, chunk, twin>>

\* a Database constructed with any config.retryAttempts
InitRetry ==
    /\ driverType \in DriverTypes
    /\ qb = NewBuilder
    /\ sent = NoSent
    /\ lastCall = Called("new", "ok")
    /\ compiled = NoCompiled
    /\ txStack = <<>>
    /\ txLog = <<>>
    /\ driverTx = "none"
    /\ exc = "none"
    /\ chunk = NoChunk
    /\ twin = NoTwin
    /\ db \in {[NewDatabase EXCEPT !.retryAttempts = n] : n \in 0..MaxRetries}
    /\ drv = NewDriver(driverType # "mysql")

NextRetry ==
    ExecuteWithRetryAct \/ OperationReturnsAct \/ OperationThrowsAct \/ SleepDoneAct

SpecRetry == InitRetry /\ [][NextRetry]_vars

\* _validateLimit(limit) and _validateOffset(offset) throw; the arguments of this model
\* are integers, so what is left of the check is the sign
ValidateLimitThrows(limit) == limit < 0
ValidateOffsetThrows(offset) == offset < 0

\* _validatePagination(page, perPage) throws
ValidatePaginationThrows(page, perPage) == page < 1 \/ perPage < 1 \/ perPage > 1000

\* limit(count, offset) with any integers; offset is <<>> when the argument is omitted or
\* null. The builder it leaves and whether it threw
LimitCall(b, count, offset) ==
    IF ValidateLimitThrows(count) THEN [throws |-> TRUE, b |-> b]
    ELSE LET counted == [b EXCEPT !.limitValue = <<count>>]
         IN  IF offset = <<>> THEN [throws |-> FALSE, b |-> counted]
             ELSE IF ValidateOffsetThrows(offset[1]) THEN [throws |-> TRUE, b |-> counted]
             ELSE [throws |-> FALSE, b |-> [counted EXCEPT !.offsetValue = offset]]

\* offset(count) with any integer
OffsetCall(b, count) ==
    IF ValidateOffsetThrows(count) THEN [throws |-> TRUE, b |-> b]
    ELSE [throws |-> FALSE, b |-> [b EXCEPT !.offsetValue = <<count>>]]

\* paginate(page, perPage) with any integers
Paginate(b, page, perPage) ==
    IF ValidatePaginationThrows(page, perPage) THEN [throws |-> TRUE, b |-> b]
    ELSE LimitCall(b, perPage, <<(page - 1) * perPage>>)

\* a call of limit, offset or paginate that has left r.b and has thrown if r.throws
Paging(op, r) ==
    /\ exc = "none"
    /\ ChunkIdle
    /\ qb' = r.b
    /\ lastCall' = CalledWith(op, IF r.throws THEN "threw" ELSE "ok", [pre |-> qb])
    /\ compiled' = NoCompiled
    /\ sent' = NoSent
    /\ exc' = IF r.throws THEN Raised("ValidationError") ELSE "none"
    /\ twin' = [twin EXCEPT !.b = Mirror(qb', @, twin.shares)]
    /\ UNCHANGED <<drv, db, driverType, txStack, txLog, driverTx, chunk>>

\* the integers given to limit, offset and paginate: -1 stands for every invalid number
PagingInputs == -1..MaxLimit

LimitCallAct ==
    \E count \in PagingInputs, offset \in {<<>>} \cup {<<n>> : n \in PagingInputs} :
        Paging("limit", LimitCall(qb, count, offset))

OffsetCallAct == \E count \in PagingInputs : Paging("offset", OffsetCall(qb, count))

PaginateAct ==
    \E page \in PagingInputs, perPage \in PagingInputs \cup {1001} :
        Paging("paginate", Paginate(qb, page, perPage))

NextPaging == LimitCallAct \/ OffsetCallAct \/ PaginateAct

SpecPaging == Init /\ [][NextPaging]_vars

\* the calls made on either of two builders
PairMethods == {"from", "where", "get"}

\* the most conditions a builder of the two holds when where() is called on it
MaxPairConds == 1

\* the method m called on the builder b, where() with the field and the value given:
\* the builder it leaves (b), the builder as the method's changes in place have left it
\* before any reset (touched), and the statement handed to the driver, if one was (stmt)
Apply(b, m, field, value, ok) ==
    LET done(nb) == [b |-> nb, touched |-> nb, stmt |-> <<>>, status |-> "ok"]
        refused == [b |-> b, touched |-> b, stmt |-> <<>>, status |-> "threw"]
        ran(call) ==
            IF call.throws
            THEN [b |-> call.pre, touched |-> call.pre, stmt |-> <<>>, status |-> "threw"]
            ELSE [b |-> IF ok THEN call.post ELSE call.pre, touched |-> call.pre,
                  stmt |-> <<[sql |-> call.sql, params |-> call.params,
                              binds |-> call.binds]>>,
                  status |-> IF ok THEN "ok" ELSE "failed"]
    IN  CASE m = "from" -> done(From(b, "t"))
          [] m = "where" -> IF ValidateWhereCountThrows(b) THEN refused
                            ELSE done(WhereValue(b, field, value, "="))
          [] OTHER -> ran(Get(b))

\* a second builder on the connection of qb: qb.clone(), or the new QueryBuilder of
\* Database.builder(), Database.from(table) or Database.where(field, value)
PairStartAct ==
    \E how \in {"clone", "builder", "from", "where"} :
        LET made == CASE how = "clone" -> Clone(qb)
                      [] how = "builder" -> NewBuilder
                      [] how = "from" -> From(NewBuilder, "t")
                      [] OTHER -> WhereValue(NewBuilder, "b", V2, "=")
        IN  /\ exc = "none"
            /\ ChunkIdle
            /\ ~twin.made
            /\ how = "clone" \/ db.connection
            /\ twin' = [made |-> TRUE, b |-> made,
                        shares |-> IF how = "clone" THEN CloneAliases ELSE {},
                        inTransaction |-> FALSE, began |-> "never",
                        alone |-> [qb |-> qb, twin |-> made], ran |-> twin.ran]
            /\ lastCall' = Called(how, "ok")
            /\ sent' = NoSent
            /\ compiled' = NoCompiled
            /\ UNCHANGED <<drv, db, driverType, qb, txStack, txLog, driverTx, exc, chunk>>

\* a call on the first builder or, once there is one, on the second; lastCall keeps the statement it handed to the
\* driver, and the statement the same call hands over when the other builder's calls
\* are left out
PairStepAct ==
    \E who \in {"qb", "twin"}, m \in PairMethods, ok \in BOOLEAN :
        LET target == IF who = "qb" THEN qb ELSE twin.b
            field == IF who = "qb" THEN "a" ELSE "b"
            value == IF who = "qb" THEN V1 ELSE V2
            r == Apply(target, m, field, value, ok)
            a == Apply(twin.alone[who], m, field, value, ok)
            other == Mirror(r.touched, IF who = "qb" THEN twin.b ELSE qb, twin.shares)
        IN  /\ exc = "none"
            /\ ChunkIdle
            /\ twin.made \/ who = "qb"
            \* each builder is followed up to the first statement it hands over
            /\ who \notin twin.ran
            /\ ok \/ m = "get"
            /\ m = "where" => Len(target.whereClauses) < MaxPairConds
            /\ qb' = IF who = "qb" THEN r.b ELSE other
            /\ twin' = [twin EXCEPT !.b = IF who = "qb" THEN other ELSE r.b,
                                    !.shares = IF r.stmt # <<>> /\ ok THEN {} ELSE @,
                                    !.alone[who] = a.b,
                                    !.ran = IF r.stmt # <<>> THEN @ \cup {who} ELSE @]
            /\ lastCall' = CalledWith(m, r.status,
                                      [who |-> who, stmt |-> r.stmt, status |-> r.status,
                                       alone |-> [stmt |-> a.stmt, status |-> a.status]])
            /\ sent' = IF r.stmt = <<>> THEN NoSent
                       ELSE [set |-> TRUE, op |-> m, sql |-> r.stmt[1].sql,
                             params |-> r.stmt[1].params, binds |-> r.stmt[1].binds,
                             calls |-> 1]
            /\ compiled' = NoCompiled
            /\ exc' = IF r.status = "ok" THEN "none"
                      ELSE Raised(IF r.status = "threw" THEN "ValidationError"
                                  ELSE "QueryError")
            /\ UNCHANGED <<drv, db, driverType, txStack, txLog, driverTx, chunk>>

NextPair == ConnectAct \/ PairStartAct \/ PairStepAct

SpecPair == Init /\ [][NextPair]_vars

\* distinct()
Distinct(b) == [b EXCEPT !.distinctFlag = TRUE]

\* the methods that fill the parts of a SELECT
SelectParts ==
    {"with", "distinct", "select", "from", "join", "where", "groupBy", "having",
     "orderBy", "limit", "offset", "union"}

\* one of the methods, called on a builder that has nothing yet in the part it fills
SelectPartAct ==
    \E part \in SelectParts :
        CASE part = "with" ->
                /\ qb.cteQueries = <<>>
                /\ Accumulate(1, WithThrows("c1"), With(qb, "c1", Filtered(V1)))
          [] part = "distinct" ->
                /\ ~qb.distinctFlag
                /\ Accumulate(0, FALSE, Distinct(qb))
          [] part = "select" ->
                /\ qb.currentOperation # "SELECT"
                /\ Accumulate(0, FALSE, Select(qb, "x"))
          [] part = "from" ->
                /\ qb.fromTable.text = <<>>
                /\ Accumulate(0, FALSE, From(qb, "t"))
          [] part = "join" ->
                /\ qb.joinClauses = <<>>
                /\ Accumulate(1, ValidateJoinCountThrows(qb),
                              Join(qb, "u", "u.id = t.id", "LEFT"))
          [] part = "where" ->
                /\ qb.whereClauses = <<>>
                /\ Accumulate(1, ValidateWhereCountThrows(qb), WhereValue(qb, "a", V1, "="))
          [] part = "groupBy" ->
                /\ qb.groupByFields = <<>>
                /\ Accumulate(0, ValidateGroupByCountThrows(qb), GroupBy(qb, "a"))
          [] part = "having" ->
                /\ qb.havingClauses = <<>>
                /\ Accumulate(1, FALSE, HavingValue(qb, "b", V2, "="))
          [] part = "orderBy" ->
                /\ qb.orderByFields = <<>>
                /\ Accumulate(0, ValidateOrderByCountThrows(qb), OrderBy(qb, "a", "ASC"))
          [] part = "limit" ->
                /\ qb.limitValue = <<>>
                /\ Accumulate(0, FALSE, LimitCall(qb, 2, <<>>).b)
          [] part = "offset" ->
                /\ qb.offsetValue = <<>>
                /\ Accumulate(0, FALSE, OffsetCall(qb, 1).b)
          [] OTHER ->
                /\ qb.subqueries = <<>>
                /\ Accumulate(1, FALSE, Union(qb, SubBuilder("plain"), FALSE))

NextSelect == SelectPartAct

SpecSelect == InitLimit /\ [][NextSelect]_vars

NextUpsert == SetAct \/ WherePlainAct \/ InsertOrUpdateOfAct

SpecUpsert == InitLimit /\ [][NextUpsert]_vars

\* chunk() with and without from()
NextChunk ==
    \/ FromAct
    \/ ChunkAct \/ ChunkRequestAct \/ ChunkGetAct \/ ChunkCallbackAct
    \/ ChunkCallbackThrowAct

SpecChunk == Init /\ [][NextChunk]_vars

\* chunk() with a driver that answers every page request with rows and a callback that
\* always returns. The request follows the loop head without an await in between; the
\* answer and the callback's return are what the driver and the callback are taken to
\* give; the continuation after each await is run by the event loop
NextChunkLive ==
    \/ FromAct
    \/ ChunkAct \/ ChunkRequestAct \/ ChunkAnswerAct \/ ChunkCallbackReturnsAct

SpecChunkLive ==
    /\ Init /\ [][NextChunkLive]_vars
    /\ WF_vars(ChunkRequestAct) /\ WF_vars(ChunkAnswerAct)
    /\ WF_vars(ChunkCallbackReturnsAct)

\* the where and having families, with update/delete ending a chain
NextWhere ==
    \/ FromAct \/ WhereAct \/ WhereMapAct \/ WhereGroupAct
    \/ OrWhereAct \/ OrWhereMapAct \/ OrWhereGroupAct
    \/ WhereInAct \/ WhereBetweenAct \/ WhereLikeAct \/ OrWhereLikeAct \/ WhereRawAct
    \/ HavingAct \/ HavingMapAct \/ OrHavingAct \/ OrHavingMapAct \/ HavingRawAct
    \/ UpdateWhereAct \/ DeleteWhereAct

SpecWhere == Init /\ [][NextWhere]_vars

\* the accumulation of SELECTs with subqueries
NextSub ==
    \/ FromAct \/ WherePlainAct \/ OrWherePlainAct \/ WhereInAct
    \/ WhereSubqueryAct \/ WhereExistsAct \/ JoinSubqueryAct \/ FromSubqueryAct

SpecSub == Init /\ [][NextSub]_vars

\* compilation with the compiled-query cache
NextCompile ==
    \/ FromAct \/ LimitAct \/ WherePlainAct
    \/ GetCompiledSelectAct \/ GetAct

SpecCompile == Init /\ [][NextCompile]_vars

\* transactions: transaction(callback) nested up to MaxDepth, the three methods
\* called by hand, and queries inside and outside the callbacks
NextTxn ==
    \/ TxnEnterAct \/ TxnReturnAct \/ TxnThrowAct \/ CallbackThrowAct
    \/ BeginTransactionAct \/ CommitTransactionAct \/ RollbackTransactionAct
    \/ FromAct \/ GetAct

SpecTxn == Init /\ [][NextTxn]_vars

-----------------------------------------------------------------------------
(* Properties *)

TerminalOps ==
    {"get", "first", "count", "exists", "insert", "insertOrUpdate", "update",
     "increment", "delete"}

\* the default state of a builder, as far as its query is concerned
IsDefault(b) ==
    /\ b.whereClauses = <<>> /\ b.havingClauses = <<>> /\ b.joinClauses = <<>>
    /\ b.groupByFields = <<>> /\ b.orderByFields = <<>> /\ b.cteQueries = <<>>
    /\ b.subqueries = <<>> /\ b.params = <<>>
    /\ b.selectFields = <<"*">> /\ b.fromTable = NoFrag
    /\ b.limitValue = <<>> /\ b.offsetValue = <<>>
    /\ ~b.distinctFlag /\ b.updateData = <<>>

\* C1 (as the specification states it; the code breaks it): in every builder state
\* the compiled clauses hold exactly as many ? as params holds values, and every
\* statement a terminal method hands to the driver has as many ? as it has params
C1_PlaceholdersMatchParams ==
    /\ CountQ(CompileSelect(qb)) = Len(qb.params)
    /\ sent.set => CountQ(sent.sql) = Len(sent.params)

\* C2 (as the specification states it; the code breaks it): the i-th element of
\* params is the value the caller gave for the i-th ? of the compiled SELECT
C2_ParamsFollowPlaceholders ==
    \A i \in 1..Len(qb.params) :
        i <= Len(SelectBinds(qb)) => qb.params[i] = SelectBinds(qb)[i]

\* C3 (as the specification states it; the code breaks it): when a terminal method
\* has returned, the builder is in its default state
C3_DefaultAfterTerminal ==
    (lastCall.op \in TerminalOps /\ lastCall.status = "ok") => IsDefault(qb)

\* C4 (as the specification states it; the code breaks it): when driver.execute has
\* failed inside a terminal method, the builder is in its default state
C4_DefaultAfterFailure ==
    (lastCall.op \in TerminalOps /\ lastCall.status = "failed") => IsDefault(qb)

Stmts(log) == [i \in 1..Len(log) |-> log[i].stmt]

\* the outermost transaction(callback) call: it began with no transaction active and
\* its callback has started
Root == Head(txStack)
Started == IF txStack = <<>> THEN FALSE ELSE ~Root.nested /\ Root.deepest >= 1
Finished == Started /\ Root.state # "open"

\* while the callbacks run, at any depth, the driver has received the one begin
OneBeginWhileOpen == (Started /\ Root.state = "open") => txLog = <<Stmt("begin", TRUE)>>

C6_RollbackAndOriginalError ==
    (Finished /\ Root.thrown # "none") =>
        /\ Stmts(txLog) = <<"begin", "rollback">>
        /\ Root.error = Root.thrown

\* C7: a beginTransaction() called while a transaction is active throws the
\* transaction-state error, sends nothing to the driver and leaves inTransaction and
\* transactionDepth as they were
C7_BeginWhenActive ==
    [][(lastCall'.op = "beginTransaction" /\ qb.inTransaction) =>
          /\ lastCall'.status = "StateError"
          /\ txLog' = IF Idle THEN <<>> ELSE txLog
          /\ qb'.inTransaction = qb.inTransaction
          /\ qb'.transactionDepth = qb.transactionDepth]_vars

\* C7 happens: beginTransaction() has thrown on an active transaction
C7_Witness ==
    /\ lastCall = Called("beginTransaction", "StateError")
    /\ qb.inTransaction
    /\ Stmts(txLog) \in {<<>>, <<"begin">>}

\* C8 (as stated): commitTransaction() / rollbackTransaction() with no transaction
\* active throw and send nothing; with one active they send one statement and the
\* builder is no longer in a transaction
C8_AsStated ==
    [][\A op \in {"commit", "rollback"} :
          lastCall'.op = op \o "Transaction" =>
              IF ~qb.inTransaction
              THEN lastCall'.status = "StateError" /\ txLog' = <<>> /\ qb' = qb
              ELSE Stmts(txLog') = <<op>> /\ ~qb'.inTransaction]_vars

\* C8 (amended): commitTransaction() / rollbackTransaction() with no transaction
\* active throw and send nothing; with one active they send one statement, and the
\* builder is no longer in a transaction if the driver accepted the statement, and
\* still in it, the driver's error thrown, if the driver rejected it
C8_CommitRollback ==
    [][\A op \in {"commit", "rollback"} :
          lastCall'.op = op \o "Transaction" =>
              IF ~qb.inTransaction
              THEN lastCall'.status = "StateError" /\ txLog' = <<>> /\ qb' = qb
              ELSE /\ Stmts(txLog') = <<op>>
                   /\ qb'.inTransaction = ~txLog'[1].ok
                   /\ lastCall'.status = IF txLog'[1].ok THEN "ok" ELSE op \o "Failed"]_vars

\* C8 happens: a commitTransaction() on an active transaction has returned
C8_Witness ==
    /\ lastCall = Called("commitTransaction", "ok")
    /\ txLog = <<Stmt("commit", TRUE)>>
    /\ ~qb.inTransaction

Connectors == {"AND", "OR"}

WellConnected(frags) ==
    \A i \in 1..Len(frags) :
        LET text == frags[i].text
        IN IF i = 1 THEN Head(text) \notin Connectors
           ELSE /\ Head(text) = (IF frags[i].style = "or" THEN "OR" ELSE "AND")
                /\ text[2] \notin Connectors

\* C9: the first fragment of whereClauses and of havingClauses starts with no
\* connector; every later fragment starts with exactly one, AND if the AND path of
\* the where/having family pushed it and OR if the OR path did
C9_Connectors == WellConnected(qb.whereClauses) /\ WellConnected(qb.havingClauses)

\* C9 happens: where('a', 1).orWhere('b', 2)
C9_Witness ==
    Flatten(Texts(qb.whereClauses)) = <<Esc("a"), "=", "?", "OR", Esc("b"), "=", "?">>

\* C10: consecutive getCompiledSelect() calls return the same text, hand nothing to
\* the driver and leave the clauses and params as they were before the first call
C10_CompileIsPure ==
    compiled.calls >= 1 =>
        /\ compiled.last = compiled.first
        /\ Query(qb) = compiled.state
        /\ sent = NoSent

\* C10 happens: a query with two where fragments and a limit has been compiled twice
C10_Witness ==
    /\ compiled.calls >= 2
    /\ Len(qb.whereClauses) = 2
    /\ qb.limitValue # <<>>

C12_BatchRows ==
    (lastCall.op \in {"insert", "insertBatch"} /\ lastCall.arg # <<>>) =>
        LET data == lastCall.arg
            same == \A r \in 1..Len(data) : Keys(data[r]) = Keys(data[1])
        IN IF ~same
           THEN lastCall.status = "threw" /\ sent = NoSent
           ELSE /\ lastCall.status \in {"ok", "failed"}
                /\ sent.set
                /\ sent.sql[1] = "INSERT"
                /\ CountQ(sent.sql) = Len(sent.params)
                /\ sent.params = Flatten([r \in 1..Len(data) |-> MapValues(data[r])])

\* C12 happens: a batch of two different rows with the same two keys in the same order
\* was sent to the driver
C12_Witness ==
    /\ lastCall.op \in {"insert", "insertBatch"}
    /\ lastCall.status = "ok"
    /\ Len(lastCall.arg) = 2
    /\ Len(lastCall.arg[1]) = 2
    /\ lastCall.arg[1] # lastCall.arg[2]
\* ceil(n / size) for size >= 1
CeilDiv(n, size) == (n + size - 1) \div size

\* C13: when chunk(size, callback) returns and no callback returned false, the callback
\* was invoked ceil(rows / size) times, the i-th time with page number i and the rows
\* (i-1)*size+1 .. min(i*size, rows) of the result, and chunk returned rows
C13_ChunkPages ==
    (chunk.pc = "done" /\ \A i \in 1..Len(chunk.calls) : chunk.calls[i].returned # "false") =>
        /\ Len(chunk.calls) = CeilDiv(chunk.rows, chunk.size)
        /\ \A i \in 1..Len(chunk.calls) :
              /\ chunk.calls[i].page = i
              /\ chunk.calls[i].from = (i - 1) * chunk.size + 1
              /\ chunk.calls[i].to = Min(i * chunk.size, chunk.rows)
        /\ chunk.result = chunk.rows

\* C13 happens: chunk(2, cb) over 5 rows has returned after pages of 2, 2 and 1 rows
C13_Witness ==
    /\ chunk.pc = "done"
    /\ chunk.size = 2
    /\ chunk.rows = 5
    /\ Len(chunk.calls) = 3
    /\ chunk.result = 5

C15_AsStated ==
    lastCall.op \in TerminalOps \union {"insertBatch"} => sent.calls = 1

\* C15, amended: a call of a terminal method other than chunk that its validation
\* rejects makes no driver.execute call; every other one makes exactly one, whether the
\* driver succeeds or fails, and a failure ends the call with that error
C15_OneExecute ==
    lastCall.op \in TerminalOps \union {"insertBatch"} =>
        /\ lastCall.status \in {"threw", "ok", "failed"}
        /\ sent.calls = IF lastCall.status = "threw" THEN 0 ELSE 1
        /\ sent.set = (lastCall.status # "threw")

\* C15 happens: the driver has failed the statement of a terminal call
C15_Witness ==
    /\ lastCall.op \in TerminalOps \union {"insertBatch"}
    /\ lastCall.status = "failed"
    /\ sent.calls = 1
\* C16 (as the specification states it; the code breaks it): with validation enabled,
\* after any sequence of accumulation calls no list is longer than its ceiling
C16_CeilingsHold ==
    qb.validation.enabled =>
        /\ Len(qb.whereClauses) <= qb.validation.maxWhereConditions
        /\ Len(qb.joinClauses) <= qb.validation.maxJoins
        /\ Len(qb.groupByFields) <= qb.validation.maxGroupByFields
        /\ Len(qb.orderByFields) <= qb.validation.maxOrderByFields
        /\ Len(qb.selectFields) <= qb.validation.maxSelectFields
\* C17: a count(field) that returns has made one driver call, whose statement is the
\* query of the builder it was called on with COUNT(field) as its select list and
\* without limit and offset, and it leaves selectFields what it was before the call
C17_CountRestores ==
    (lastCall.op = "count" /\ lastCall.status = "ok") =>
        LET pre == lastCall.arg.pre
            aggregate == IF lastCall.arg.field = "*" THEN "COUNT(*) as count"
                         ELSE "COUNT(" \o Esc(lastCall.arg.field) \o ") as count"
        IN /\ sent.calls = 1
           /\ sent.sql = CompileSelect([pre EXCEPT !.selectFields = <<aggregate>>,
                                                   !.limitValue = <<>>,
                                                   !.offsetValue = <<>>])
           /\ sent.params = pre.params
           /\ qb.selectFields = pre.selectFields

\* C17 happens: count() has returned on a builder with a select list of its own, a
\* table and a condition
C17_Witness ==
    /\ lastCall.op = "count"
    /\ lastCall.status = "ok"
    /\ lastCall.arg.pre.selectFields = <<"x">>
    /\ lastCall.arg.pre.fromTable.text # <<>>
    /\ Len(lastCall.arg.pre.whereClauses) = 1
    /\ qb.selectFields = <<"x">>
\* C18 (as the specification states it; the code breaks it): getLastQuery() is null on
\* a new builder, and once get, first, insert, update, delete or query has executed a
\* statement it is the text and the params of that statement
C18_LastQuery ==
    /\ lastCall.op = "new" => qb.lastQuery = NoQuery
    /\ (lastCall.op \in {"get", "first", "insert", "update", "delete", "query"}
            /\ lastCall.status = "ok") =>
          qb.lastQuery = [set |-> TRUE, sql |-> sent.sql, params |-> sent.params]
\* the fields C19 names
CloneFields ==
    {"selectFields", "fromTable", "joinClauses", "whereClauses", "groupByFields",
     "havingClauses", "orderByFields", "limitValue", "offsetValue", "distinctFlag",
     "params", "updateData", "cteQueries", "subqueries"}

\* C19: clone() leaves the original as it is and returns a builder equal to it in every
\* field the claim names; from then on a call on the clone leaves the original
\* unchanged and a call on the original leaves the clone unchanged
C19_CloneIndependent ==
    [][/\ lastCall'.op = "clone" =>
             /\ qb' = qb
             /\ twin'.made
             /\ \A f \in CloneFields : twin'.b[f] = qb[f]
       /\ lastCall'.op \in {"clone.accumulate", "clone.delete"} => qb' = qb
       /\ lastCall'.op \in {"accumulate", "delete"} => twin'.b = twin.b]_vars

\* C19 happens: the clone of a builder with a table, a condition and update data has
\* been given a condition and a value of its own
C19_Witness ==
    /\ twin.made
    /\ lastCall = Called("clone.accumulate", "ok")
    /\ qb.fromTable.text # <<>>
    /\ Len(qb.whereClauses) = 1
    /\ Len(twin.b.whereClauses) = 2
    /\ Len(qb.updateData) = 1
    /\ Len(twin.b.updateData) = 2
\* C20 (as the specification states it; the code breaks it): get(), first(), count()
\* or exists() called on a builder that has no table from from() throws and makes no
\* driver call, whatever else was accumulated
C20_FromRequired ==
    [][(lastCall'.op \in {"get", "first", "count", "exists"} /\ qb.fromTable.text = <<>>) =>
          (lastCall'.status = "threw" /\ sent' = NoSent)]_vars
\* the compiled text from its LIMIT on
Pagination(text) ==
    IF \E i \in 1..Len(text) : text[i] = "LIMIT"
    THEN SubSeq(text, CHOOSE i \in 1..Len(text) : text[i] = "LIMIT", Len(text))
    ELSE <<>>

\* limit and offset of the builder as numbers, a null offset being 0
LimitOf(b) == b.limitValue[1]
OffsetOf(b) == IF b.offsetValue = <<>> THEN 0 ELSE b.offsetValue[1]

AssignedFields(text) == {text[i] : i \in {j \in 1..(Len(text) - 1) : text[j + 1] = "="}}
PlaceholderCount(text) == Cardinality({i \in 1..Len(text) : text[i] = "?"})
EndsWith(text, tail) ==
    /\ Len(text) >= Len(tail)
    /\ SubSeq(text, Len(text) - Len(tail) + 1, Len(text)) = tail
Contains(text, part) ==
    \E i \in 1..(Len(text) - Len(part) + 1) : SubSeq(text, i, i + Len(part) - 1) = part
FieldsOf(data) == {data[i].k : i \in 1..Len(data)}
UpsertCalled == lastCall.op = "insertOrUpdate" /\ lastCall.arg # <<>>

\* C22: insertOrUpdate(table, data, conflictColumns) on PostgreSQL raises before any
\* transport call when conflictColumns is missing, and otherwise sends one INSERT ... ON
\* CONFLICT (conflictColumns) whose DO UPDATE SET lists exactly the data fields that are
\* not conflict columns (DO NOTHING when there is none), followed by RETURNING *; on
\* MySQL and MariaDB it ignores conflictColumns and sends one INSERT ... ON DUPLICATE KEY
\* UPDATE that lists every data field; in both cases the bound values are the data
\* values in field order, one for each placeholder
C22_InsertOrUpdate ==
    UpsertCalled =>
        LET d == lastCall.arg.data
            cc == lastCall.arg.conflictColumns
            ccSet == {cc[i] : i \in 1..Len(cc)}
            rest == FieldsOf(d) \ ccSet
            target == <<"ON", "CONFLICT", "(">>
                      \o JoinWith([i \in 1..Len(cc) |-> <<Esc(cc[i])>>], <<",">>) \o <<")">>
        IN IF IsPostgres /\ cc = <<>>
           THEN lastCall.status = "threw" /\ sent.calls = 0
           ELSE /\ lastCall.status # "threw"
                /\ sent.calls = 1
                /\ sent.params = [i \in 1..Len(d) |-> d[i].v]
                /\ PlaceholderCount(sent.sql) = Len(d)
                /\ SubSeq(sent.sql, 1, 2) = <<"INSERT", "INTO">>
                /\ AssignedFields(sent.sql) =
                       {Esc(f) : f \in IF IsPostgres THEN rest ELSE FieldsOf(d)}
                /\ IF IsPostgres
                   THEN /\ Contains(sent.sql, target \o <<"DO">>)
                        /\ EndsWith(sent.sql, <<"RETURNING", "*">>)
                        /\ Contains(sent.sql, <<"DO", "NOTHING">>) <=> rest = {}
                        /\ Contains(sent.sql, <<"DO", "UPDATE", "SET">>) <=> rest # {}
                   ELSE /\ Contains(sent.sql, <<"ON", "DUPLICATE", "KEY", "UPDATE">>)
                        /\ ~Contains(sent.sql, <<"CONFLICT">>)

\* insertOrUpdate('t', {b, a}, ['a']) was sent on PostgreSQL: only b is updated
C22_Witness ==
    /\ UpsertCalled /\ lastCall.status = "ok" /\ driverType = "postgres"
    /\ lastCall.arg.data = <<Entry("b", V2), Entry("a", V1)>>
    /\ lastCall.arg.conflictColumns = <<"a">>
    /\ AssignedFields(sent.sql) = {Esc("b")}
    /\ sent.params = <<V2, V1>>
BuilderCalled == lastCall.op = "builder"

C23_Refused ==
    /\ BuilderCalled /\ lastCall.status = "threw" /\ db.handed = 0
\* C24: for one sequential caller and any sequence of beginTransaction, commitTransaction,
\* rollbackTransaction and (possibly nested) transaction(callback) calls on one builder,
\* inTransaction is true exactly when the driver has received a begin not yet followed
\* by a commit or rollback (as long as the driver has rejected no commit or rollback
\* of an open transaction); in particular it is still true when a transaction(callback)
\* called after a beginTransaction() by hand returns
C24_InTransactionTracksDriver ==
    driverTx # "unknown" => (qb.inTransaction <=> driverTx = "open")

\* transaction(callback) has returned to a caller who had begun a transaction by hand
C24_AfterManualBegin ==
    /\ lastCall = Called("transaction", "ok") /\ Idle
    /\ txLog = <<>> /\ driverTx = "open"
\* C25 (as the specification states it; the code breaks it): in a query built with
\* with() / withRecursive(), params holds the values in the order of the placeholders
\* of the compiled text: those of every CTE at the positions of that CTE's
\* placeholders in the WITH prefix, in WITH-clause order, before those of the main
\* query, whether the CTEs were added before or after the where calls
C25_CteParamsInTextOrder ==
    qb.cteQueries # <<>> => qb.params = SelectBinds(qb)

\* one CTE with a value, added after a where of the main query: here the order is right
C25_OneCte ==
    /\ Len(qb.cteQueries) = 1 /\ Len(qb.whereClauses) = 1
    /\ Len(Binds(qb.cteQueries)) = 1
    /\ qb.params = SelectBinds(qb)
\* C26 (as the specification states it; the code breaks it): for a SELECT built with
\* where-family, having-family and union calls, the i-th element of params is the value
\* of the i-th placeholder of the compiled text (the WHERE values, then the HAVING
\* values, then the UNION values), in whatever order the calls were made
C26_ParamsInClauseOrder ==
    qb.params = Binds(qb.whereClauses) \o Binds(qb.havingClauses) \o Binds(qb.subqueries)

\* where() called before having(): here the order is right
C26_WhereThenHaving ==
    /\ Len(qb.whereClauses) = 1 /\ Len(qb.havingClauses) = 1
    /\ qb.params = Binds(qb.whereClauses) \o Binds(qb.havingClauses)
\* C27: the compiled-query cache is transparent: in every reachable state of the builder
\* buildSelectQuery() returns the very text that compiling the present state without
\* a cache produces, whatever was compiled and cached on the instance before
C27_CacheTransparent == BuildSelectQuery(qb) = CompileSelect(qb)

\* the query the last builder call left is answered from the cache, which holds its text
\* from a compilation made earlier on the instance
C27_Witness ==
    /\ lastCall.op = "accumulate"
    /\ CacheHas(qb.queryCache, GenerateCacheKey(qb))
    /\ Len(qb.whereClauses) = 1 /\ qb.limitValue # <<>>

\* the cache is full of another query's text and the present query is compiled afresh
C27_Miss ==
    /\ qb.queryCache # {} /\ ~CacheHas(qb.queryCache, GenerateCacheKey(qb))
    /\ compiled.calls >= 1
ResetOrTerminal == lastCall.op \in TerminalOps \cup {"reset"}
ReadingOps == {"get", "first", "count", "exists"}
TransactionKept ==
    /\ qb'.inTransaction = qb.inTransaction
    /\ qb'.transactionDepth = qb.transactionDepth
    /\ qb'.validation = qb.validation
\* the transaction statements of a finished outermost transaction(callback) end it
Closed == Finished => \E i \in 1..Len(txLog) : txLog[i].stmt \in {"commit", "rollback"}

\* C28 as stated: reset() and every terminal method leave inTransaction,
\* transactionDepth, the compiled-query cache and the validation ceilings unchanged
C28_AsStated ==
    [][ResetOrTerminal' => (TransactionKept /\ qb'.queryCache = qb.queryCache)]_vars

\* C28: reset() and every terminal method leave inTransaction, transactionDepth and the
\* validation ceilings unchanged and drop no entry of the compiled-query cache, which
\* only the terminal methods that compile a SELECT can extend; a get, insert, update or
\* delete inside a transaction(callback) callback neither ends nor forgets the open
\* transaction, and the commit or rollback of the enclosing transaction() is issued
C28_ResetKeepsTransaction ==
    [][/\ ResetOrTerminal' =>
            /\ TransactionKept
            /\ qb.queryCache \subseteq qb'.queryCache
            /\ lastCall'.op \notin ReadingOps => qb'.queryCache = qb.queryCache
       /\ Closed']_vars

\* a get() has returned inside a callback and the builder is still in the transaction
C28_Witness ==
    /\ lastCall = Called("get", "ok")
    /\ ~Idle
    /\ qb.inTransaction /\ qb.transactionDepth >= 1
    /\ qb.queryCache # {}
\* C29: chunk() never has two statements with the driver at once: the page after page k
\* is requested only when the rows of page k have been received and the callback for
\* page k has completed, and the pages are requested with the offsets 0, size,
\* 2 * size, ... in this order
C29_OnePageAtATime ==
    /\ chunk.inflight <= 1
    /\ chunk.inflight = 1 <=> chunk.pc = "await"
    /\ chunk.pc = "await" => Len(chunk.calls) = chunk.gets - 1
    /\ chunk.pc \in {"get", "callback"} => Len(chunk.calls) \in {chunk.gets - 1, chunk.gets}
    /\ Len(chunk.offsets) = chunk.gets
    /\ \A i \in 1..Len(chunk.offsets) : chunk.offsets[i] = (i - 1) * chunk.size

\* the third page is with the driver, the callbacks for the first two having completed
C29_Witness ==
    /\ chunk.pc = "await" /\ chunk.inflight = 1
    /\ chunk.size = 2
    /\ chunk.offsets = <<0, 2, 4>>
    /\ Len(chunk.calls) = 2

ChunkFields ==
    {"selectFields", "fromTable", "joinClauses", "whereClauses", "groupByFields",
     "havingClauses", "orderByFields", "limitValue", "offsetValue", "params"}

\* C30: chunk(size, callback) does not change the builder it is called on: while it runs
\* and after it has returned (all pages read, or stopped by the callback) or thrown,
\* the clause lists, params, selectFields, limit and offset of the builder are those
\* it had before the call
C30_ChunkKeepsBuilder ==
    (lastCall.op = "chunk" /\ chunk.pc # "idle") =>
        \A f \in ChunkFields : qb[f] = chunk.before[f]

\* chunk(2, cb) on a builder with a table has read two pages and returned
C30_Witness ==
    /\ lastCall = Called("chunk", "ok") /\ chunk.pc = "done"
    /\ chunk.gets >= 2
    /\ qb.fromTable # NoFrag /\ qb.limitValue = <<>>
    /\ \A f \in ChunkFields : qb[f] = chunk.before[f]

\* chunk() has stopped on an error of the driver
C30_Failed ==
    /\ lastCall = Called("chunk", "failed") /\ chunk.pc = "threw" /\ chunk.gets = 2
GroupCalled == lastCall.op \in {"where", "orWhere"} /\ lastCall.status = "ok"
\* what g => g.where('a', 1).orWhere('b', 2) builds on empty lists
PairText == <<Esc("a"), "=", "?", "OR", Esc("b"), "=", "?">>
PairParams == <<V1, V2>>
LastText(frags) == frags[Len(frags)].text

\* C31: where(callback) / orWhere(callback) run the callback on a builder with empty
\* where and params lists and append to the outer builder exactly one parenthesised
\* fragment holding the group's fragments in order, the first without connector,
\* connected with AND resp. OR (with nothing when it is the first fragment), and the
\* group's params after the outer params; a callback that adds no condition appends
\* nothing; nothing else of the outer builder changes, whatever the callback does
C31_WhereGroup ==
    GroupCalled =>
        LET pre == lastCall.arg.pre
            connector == IF Len(pre.whereClauses) = 0 THEN <<>>
                         ELSE IF lastCall.op = "where" THEN <<"AND">> ELSE <<"OR">>
        IN IF lastCall.arg.callback = "empty" THEN qb = pre
           ELSE /\ Len(qb.whereClauses) = Len(pre.whereClauses) + 1
                /\ SubSeq(qb.whereClauses, 1, Len(pre.whereClauses)) = pre.whereClauses
                /\ LastText(qb.whereClauses) = connector \o <<"(">> \o PairText \o <<")">>
                /\ qb.params = pre.params \o PairParams
                /\ [qb EXCEPT !.whereClauses = pre.whereClauses, !.params = pre.params] = pre

\* orWhere(g => g.select('x').limit(5).where('a', 1).orWhere('b', 2)) after where('a', 1)
\* on a builder with a table
C31_Witness ==
    /\ GroupCalled /\ lastCall.op = "orWhere" /\ lastCall.arg.callback = "busy"
    /\ Len(lastCall.arg.pre.whereClauses) = 1
    /\ qb.fromTable # NoFrag /\ qb.selectFields = <<"*">> /\ qb.limitValue = <<>>
    /\ Len(qb.whereClauses) = 2
    /\ qb.params = <<V1, V1, V2>>
\* C32: transactionDepth is never negative and equals the number of transaction(callback)
\* callbacks in progress on the builder; it is 0 whenever none is in progress, also
\* after a failing begin, a failing commit, a failing rollback or a throwing callback
C32_DepthCountsCallbacks ==
    /\ qb.transactionDepth >= 0
    /\ qb.transactionDepth = OpenDepth

\* a transaction(callback) nested in another has ended with the commit and the rollback
\* both rejected by the driver, and the depth is 0 again
C32_Witness ==
    /\ Finished /\ Root.deepest = 2
    /\ Stmts(txLog) = <<"begin", "commit", "rollback">>
    /\ ~txLog[2].ok /\ ~txLog[3].ok
    /\ qb.transactionDepth = 0

\* the callbacks of two nested calls are in progress
C32_Nested == OpenDepth = 2 /\ qb.transactionDepth = 2

\* a begin the driver rejected, and a callback that threw
C32_BeginFailed == lastCall = Called("transaction", "beginFailed") /\ qb.transactionDepth = 0
C32_CallbackThrew ==
    /\ Finished /\ Root.thrown = "CallbackError" /\ qb.transactionDepth = 0
\* the outcome execute reports when the transport's settling came first
TransportOutcome(call) == IF call.transport = "resolved" THEN "result" ELSE "error"

\* the execute calls that have thrown
Failed(d) == {i \in 1..Len(d.calls) : d.calls[i].outcome \in {"error", "timeout"}}

\* the execute calls that have returned or thrown
Settled(d) == {i \in 1..Len(d.calls) : d.calls[i].pc = "settled"}

\* an execute call of a driver with queryTimeout settles exactly once, with the
\* transport's outcome if the transport settled before queryTimeout ended and with a
\* timeout error otherwise, and updates the metrics once, when it settles
SettlesByRace(call) ==
    /\ call.settles = (IF call.first = "none" THEN 0 ELSE 1)
    /\ call.measured = call.settles
    /\ call.pc = (IF call.first = "none" THEN "racing" ELSE "settled")
    /\ call.outcome = CASE call.first = "none" -> "none"
                        [] call.first = "transport" -> TransportOutcome(call)
                        [] OTHER -> "timeout"

\* C33 as stated: every driver's execute call settles exactly once, with the transport's
\* outcome if the transport settles before queryTimeout has passed and with a timeout
\* error otherwise; what comes second changes neither the outcome nor the metrics
C33_AsStated == \A i \in 1..Len(drv.calls) : SettlesByRace(drv.calls[i])

\* C33: in a driver with queryTimeout an execute call settles exactly once, with the
\* transport's outcome if the transport settles before queryTimeout has passed and with a
\* timeout error otherwise; what comes second changes neither the outcome nor the
\* metrics, which count each call once. The MySQLDriver without queryTimeout settles
\* exactly once with the transport's outcome, whenever that comes
C33_SettlesOnce ==
    /\ \A i \in 1..Len(drv.calls) :
        LET call == drv.calls[i]
        IN  IF drv.timed THEN SettlesByRace(call)
            ELSE /\ call.settles = (IF call.transport = "pending" THEN 0 ELSE 1)
                 /\ call.pc = (IF call.transport = "pending" THEN "racing" ELSE "settled")
                 /\ call.outcome = (IF call.transport = "pending" THEN "none"
                                    ELSE TransportOutcome(call))
                 /\ call.measured = 0
    /\ drv.timed => /\ drv.metrics.queriesExecuted = Cardinality(Settled(drv))
                    /\ drv.metrics.errorsCount = Cardinality(Failed(drv))

\* a call has thrown the timeout error and the transport's result has come after it
C33_Witness ==
    /\ drv.timed /\ drv.calls # <<>>
    /\ drv.calls[1].first = "timeout" /\ drv.calls[1].transport = "resolved"
    /\ drv.calls[1].outcome = "timeout" /\ drv.metrics.queriesExecuted = 1

\* a call has returned the transport's result and the timer has fired after it
C33_LateTimer ==
    /\ drv.timed /\ drv.calls # <<>>
    /\ drv.calls[1].first = "transport" /\ drv.calls[1].elapsed
    /\ drv.calls[1].outcome = "result"

\* the MySQLDriver without queryTimeout has returned a result that came after
\* queryTimeout had passed
C33_NoTimer ==
    /\ ~drv.timed /\ drv.calls # <<>>
    /\ drv.calls[1].first = "timeout" /\ drv.calls[1].outcome = "result"
\* how many of the first k tokens of sql are question marks
QuestionMarks(sql, k) == Cardinality({j \in 1..k : sql[j] = "?"})

\* sql with its i-th question mark, counted from the left, replaced by $i
Numbered(sql) ==
    [k \in 1..Len(sql) |-> IF sql[k] = "?" THEN Dollar(QuestionMarks(sql, k)) ELSE sql[k]]

\* C34: PostgreSQLDriver.execute hands to the transport the text with its i-th question
\* mark replaced by $i and the params unchanged, whether the text was converted afresh,
\* taken from the placeholder cache, or converted with the cache full
C34_PlaceholdersNumbered ==
    IsPostgres =>
        /\ \A i \in 1..Len(drv.calls) :
            /\ drv.calls[i].sent.sql = Numbered(drv.calls[i].sql)
            /\ drv.calls[i].sent.params = drv.calls[i].params
        /\ \A e \in drv.placeholderCache : e.sql = Numbered(e.key)

\* a text with two question marks was converted, cached, and executed again
C34_Witness ==
    /\ IsPostgres /\ Len(drv.calls) = 2
    /\ drv.calls[1].sql = <<"?", "?">> /\ drv.calls[2].sql = <<"?", "?">>
    /\ drv.calls[2].sent.sql = <<"$1", "$2">>
    /\ drv.calls[2].params = <<V1, V2>>
    /\ \E e \in drv.placeholderCache : e.key = <<"?", "?">>

\* a text was converted while the cache was full of another
C34_CacheFull ==
    /\ IsPostgres /\ Len(drv.calls) = 2
    /\ drv.calls[2].sql = <<"x", "?">> /\ drv.calls[2].sent.sql = <<"x", "$1">>
    /\ Cardinality(drv.placeholderCache) = MaxPreparedStatements
    /\ \A e \in drv.placeholderCache : e.key # drv.calls[2].sql
\* C35: at most one transaction is open on a connection: while the builder has an open
\* transaction, beginTransaction() on a clone of it, which has the same connection,
\* sends no begin to the driver
C35_OneDriverTransaction == twin.began # "open"
\* C36: when executeWithRetry has returned or thrown, operation was called at least once
\* and at most retries times; every call but the last failed with a retryable error; a
\* return follows a successful call, and a throw follows a failure that is not
\* retryable or is the last allowed, and throws that call's error
C36_RetryBounded ==
    LET r == db.retry
        n == Len(r.history)
    IN  r.pc \in {"returned", "threw"} =>
            /\ n >= 1 /\ n <= r.retries
            /\ \A i \in 1..(n - 1) : r.history[i].kind = "retryable"
            /\ r.pc = "returned" => r.history[n].kind = "ok"
            /\ r.pc = "threw" =>
                    /\ r.history[n].kind # "ok"
                    /\ r.history[n].kind # "retryable" \/ n = r.retries
                    /\ r.thrown = <<r.history[n]>>

\* executeWithRetry has returned the result of a call that followed a retryable failure
C36_SecondAttempt ==
    /\ db.retry.pc = "returned" /\ Len(db.retry.history) = 2
    /\ db.retry.history[1].kind = "retryable"
\* C37: when limit(count, offset), offset(count) or paginate(page, perPage) has thrown
\* its validation error, limitValue and offsetValue are what they were before the call
C37_FailedPagingKeepsState ==
    (lastCall.op \in {"limit", "offset", "paginate"} /\ lastCall.status = "threw") =>
        /\ qb.limitValue = lastCall.arg.pre.limitValue
        /\ qb.offsetValue = lastCall.arg.pre.offsetValue

\* offset(count) has thrown on a builder that had a limit and an offset, and has
\* changed neither
C37_OffsetRefused ==
    /\ lastCall.op = "offset" /\ lastCall.status = "threw"
    /\ qb.limitValue = <<2>> /\ qb.offsetValue = <<1>>
\* the last call was made on one of two builders of the same connection
PairCalled == twin.made /\ lastCall.op \in PairMethods /\ lastCall.arg # <<>>

C38_Facade ==
    /\ PairCalled /\ lastCall.op = "get" /\ lastCall.arg.who = "twin"
    /\ db.connection /\ lastCall.arg.stmt # <<>>
    /\ twin.alone.qb.fromTable.text = <<>>
    /\ lastCall.arg.stmt[1].params = <<V2>> /\ qb.params = <<V1>>
\* the rows of the page at the offset given, of the result of the chunk() call
RowsAt(offset) ==
    IF chunk.rows <= offset THEN 0 ELSE Min(chunk.size, chunk.rows - offset)

\* the offsets of the pages requested are 0, size, 2 * size, ..., and every page before
\* the last one requested was full
OffsetsAdvance ==
    \A i \in 1..Len(chunk.offsets) :
        /\ chunk.offsets[i] = (i - 1) * chunk.size
        /\ i < Len(chunk.offsets) => RowsAt(chunk.offsets[i]) = chunk.size

\* chunk() has returned after a page of fewer than size rows, or after the callback
\* returned false
EndedAtShortPage ==
    chunk.pc = "done" =>
        /\ chunk.offsets # <<>>
        /\ \/ RowsAt(chunk.offsets[Len(chunk.offsets)]) < chunk.size
           \/ /\ chunk.calls # <<>>
              /\ chunk.calls[Len(chunk.calls)].returned = "false"

\* C39: with a finite result that does not change, a driver that answers every page
\* request and a callback that always returns, a chunk(size, callback) call that has
\* started eventually returns; the offset grows by size from one request to the next,
\* and the loop ends at the first page of fewer than size rows, if not before by the
\* callback returning false
C39_ChunkReturns ==
    /\ [](chunk.pc \in {"get", "await", "callback", "done"} => OffsetsAdvance)
    /\ []EndedAtShortPage
    /\ (chunk.pc = "get") ~> (chunk.pc = "done")

\* chunk(2, callback) over four rows has returned after two full pages and an empty one
C39_Witness ==
    /\ chunk.pc = "done" /\ chunk.size = 2 /\ chunk.rows = 4
    /\ chunk.offsets = <<0, 2, 4>> /\ chunk.result = 4
\* the tokens of a text that stand outside every pair of parentheses
RECURSIVE Outside(_, _)
Outside(text, depth) ==
    IF text = <<>> THEN <<>>
    ELSE IF Head(text) = "(" THEN Outside(Tail(text), depth + 1)
    ELSE IF Head(text) = ")" THEN Outside(Tail(text), depth - 1)
    ELSE IF depth = 0 THEN <<Head(text)>> \o Outside(Tail(text), depth)
    ELSE Outside(Tail(text), depth)

\* the compiled SELECT of qb without what stands in parentheses: the bodies of the
\* common table expressions and of the UNIONs
Outer == Outside(BuildSelectQuery(qb), 0)

\* where a word first stands in the text o, 0 if nowhere
IndexIn(o, word) ==
    IF \E i \in 1..Len(o) : o[i] = word
    THEN CHOOSE i \in 1..Len(o) : o[i] = word /\ \A j \in 1..(i - 1) : o[j] # word
    ELSE 0

\* the keywords that open the parts, in the order of the parts
PartWords ==
    <<"WITH", "SELECT", "DISTINCT", "FROM", "JOIN", "WHERE", "GROUP", "HAVING", "ORDER",
      "LIMIT", "UNION">>

\* where each keyword of PartWords first stands in the outer text
PartIndex == LET o == Outer IN [i \in 1..Len(PartWords) |-> IndexIn(o, PartWords[i])]

\* the parts that are there stand in the order of PartWords, none of them twice before
\* the UNIONs
PartsOrdered(at) ==
    /\ \A i, j \in 1..Len(PartWords) : (i < j /\ at[i] > 0 /\ at[j] > 0) => at[i] < at[j]
    /\ LET o == Outer
       IN  \A i \in 1..(Len(PartWords) - 1) :
               Cardinality({k \in 1..Len(o) : o[k] = PartWords[i]}) <= 1

\* every part but the limit/offset part is there exactly when its field is not empty
PartsButLimitPresent(at) ==
    /\ at[2] > 0
    /\ at[1] > 0 <=> qb.cteQueries # <<>>
    /\ at[3] > 0 <=> qb.distinctFlag
    /\ at[4] > 0 <=> qb.fromTable.text # <<>>
    /\ at[5] > 0 <=> qb.joinClauses # <<>>
    /\ at[6] > 0 <=> qb.whereClauses # <<>>
    /\ at[7] > 0 <=> qb.groupByFields # <<>>
    /\ at[8] > 0 <=> qb.havingClauses # <<>>
    /\ at[9] > 0 <=> qb.orderByFields # <<>>
    /\ at[11] > 0 <=> qb.subqueries # <<>>

\* C40: the compiled SELECT lists its parts in the order CTE prefix, SELECT [DISTINCT]
\* fields, FROM, joins, WHERE, GROUP BY, HAVING, ORDER BY, limit/offset, UNION suffix,
\* whatever the order of the calls, and each part is there exactly when the builder
\* holds something for it; the limit/offset part when a limit or an offset is held
C40_PartsInOrder ==
    LET at == PartIndex
    IN  /\ PartsOrdered(at)
        /\ PartsButLimitPresent(at)
        /\ at[10] > 0 <=> (qb.limitValue # <<>> \/ qb.offsetValue # <<>>)

\* the same with the limit/offset part there exactly when a limit is held
C40_LimitDecides ==
    LET at == PartIndex
    IN  /\ PartsOrdered(at)
        /\ PartsButLimitPresent(at)
        /\ at[10] > 0 <=> qb.limitValue # <<>>

\* an offset is held, no limit, and the compiled text has no limit/offset part
C40_OffsetDropped ==
    /\ qb.offsetValue # <<>> /\ qb.limitValue = <<>>
    /\ qb.fromTable.text # <<>>
    /\ PartIndex[10] = 0

\* the SELECT of the example: fields, FROM, WHERE, ORDER BY and a limit
C40_Example ==
    /\ driverType = "mysql"
    /\ BuildSelectQuery(qb) =
            <<"SELECT", "*", "FROM", "'t'", "WHERE", "'a'", "=", "?", "ORDER", "BY",
              "'a' ASC", "LIMIT", "2">>
====
